---- MODULE Spec2Model ----
(***************************************************************************)
(* A model of the configuration layer of ml-auto-solutions:                *)
(*   xlml/apis/test_config.py  - accelerators and test configs             *)
(*   dags/vm_resource.py       - enums of projects, zones, TPU versions    *)
(*   dags/inference/mor_jetstream_benchmark_serving.py - the sweep DAG     *)
(*   dags/pytorch_xla/pytorchxla_torchvision.py        - the torchvision   *)
(*                                                        DAG              *)
(* A Python str is a sequence of one-character strings, so that            *)
(* concatenation, joining, quoting and splitting are computed, not         *)
(* assumed.                                                                *)
(***************************************************************************)
EXTENDS Integers, Sequences, FiniteSets, TLC

VARIABLES
  cfg,        \* the test config object under construction / constructed
  bid,        \* value read from cfg.benchmark_id      (<<>> = not read yet)
  setup,      \* value read from cfg.setup_script      (<<>> = not read yet)
  test,       \* value read from cfg.test_script       (<<>> = not read yet)
  startup,    \* value read from cfg.startup_script    (<<>> = not read yet)
  sh,         \* the shell that executes the startup script on the VM
  jsonTest,   \* the compiled JSonnet test that _load_compiled_jsonnet reads
  argv,       \* the words the shell splits the command line of test_script
              \* into                                  (<<>> = not split yet)
  sweep,      \* the loading of the mor-jetstream-benchmark-serving DAG file
  dag,        \* the loading of the pytorchxla-torchvision DAG file
  md,         \* a call of get_maxdiffusion_inference_nightly_config or of
              \* _modify_save_metrics, and the files it reads and writes
  imports     \* the import statements of a DAG file being loaded

cfgVars == <<cfg, bid, setup, test, startup>>
vars ==
  <<cfg, bid, setup, test, startup, sh, jsonTest, argv, sweep, dag, md,
    imports>>

\* the variables that the reads of a config's properties leave alone
notReadVars == <<sh, jsonTest, argv, sweep, dag, md, imports>>


(***************************************************************************)
(* Bounds of the model.                                                    *)
(***************************************************************************)
MaxNameLen == 2      \* longest test_name / accelerator_type enumerated
MaxCoreUnits == 3    \* TPU cores enumerated are 0, 4, ..., 4 * MaxCoreUnits
MaxSlices == 2       \* num_slices enumerated are -1 .. MaxSlices
MaxCmds == 2         \* longest set_up_cmds / run_model_cmds enumerated
MaxArgs == 2         \* longest test_command enumerated
MaxTimeout == 125    \* JSON timeouts enumerated are 0 .. MaxTimeout seconds

(***************************************************************************)
(* Strings.                                                                *)
(***************************************************************************)
NotRead == <<>>
Val(s) == <<s>>

\* no shell has been started
ShIdle == [pc |-> 0]

\* no compiled JSonnet test is involved
NoJson == <<>>

\* the mor-jetstream DAG file is not being loaded
SweepIdle == [entry |-> 0]

\* the pytorchxla-torchvision DAG file is not being loaded
DagIdle == [pc |-> 0]
MdIdle == [pc |-> 0]
ImportsIdle == [pc |-> 0]

RECURSIVE Join(_, _)
\* sep.join(parts)
Join(sep, parts) ==
  IF parts = <<>> THEN <<>>
  ELSE IF Len(parts) = 1 THEN parts[1]
  ELSE parts[1] \o sep \o Join(sep, Tail(parts))

Digit == <<"0", "1", "2", "3", "4", "5", "6", "7", "8", "9">>

RECURSIVE NatStr(_)
NatStr(n) ==
  IF n < 10 THEN <<Digit[n + 1]>>
  ELSE NatStr(n \div 10) \o <<Digit[(n % 10) + 1]>>

\* str(n) of a Python int, as an f-string formats it
IntStr(n) == IF n < 0 THEN <<"-">> \o NatStr(-n) ELSE NatStr(n)

RECURSIVE StringsUpTo(_, _)
\* every string over alphabet of length at most n
StringsUpTo(alphabet, n) ==
  IF n = 0 THEN {<<>>}
  ELSE LET shorter == StringsUpTo(alphabet, n - 1)
       IN  shorter \cup {s \o <<c>> : s \in shorter, c \in alphabet}

\* A Python value whose type matters: an int, a str or None.
PyInt(n) == <<"int", n>>
PyStr(s) == <<"str", s>>
PyNone == <<"None">>

\* f"{v}" and str(v)
Str(v) ==
  CASE v[1] = "int" -> IntStr(v[2])
    [] v[1] = "str" -> v[2]
    [] v[1] = "None" -> <<"N", "o", "n", "e">>

\* "if v:" of an int, a str or None
Truthy(v) ==
  CASE v[1] = "int" -> v[2] # 0
    [] v[1] = "str" -> v[2] # <<>>
    [] v[1] = "None" -> FALSE

\* key in d, for a dict d: the sequence of its <<key, value>> pairs
DictHas(d, key) == \E i \in 1 .. Len(d) : d[i][1] = key

\* d[key] of a dict that has the key
DictGet(d, key) == d[CHOOSE i \in 1 .. Len(d) : d[i][1] = key][2]

(***************************************************************************)
(* dags/vm_resource.py: class TpuVersion(enum.Enum), member -> value.      *)
(***************************************************************************)
TpuVersion ==
  [V2 |-> <<"2">>,
   V3 |-> <<"3">>,
   V4 |-> <<"4">>,
   V5E |-> <<"5", "l", "i", "t", "e", "p", "o", "d">>,
   V5P |-> <<"5", "p">>,
   TRILLIUM |-> <<"6", "e">>]

TpuVersions == DOMAIN TpuVersion

(***************************************************************************)
(* xlml/apis/test_config.py: accelerators.                                 *)
(***************************************************************************)
\* Tpu(version, cores, runtime_version, network, subnetwork, reserved)
Tpu(version, cores, runtime_version, network, subnetwork, reserved) ==
  [kind |-> "Tpu", version |-> version, cores |-> cores,
   runtime_version |-> runtime_version, network |-> network,
   subnetwork |-> subnetwork, reserved |-> reserved]

\* Tpu(version, cores) with the defaults of the other fields
TpuDefault(version, cores) ==
  Tpu(version, cores, "None", "default", "default", FALSE)

\* Gpu(..., accelerator_type, ...)
Gpu(accelerator_type) ==
  [kind |-> "Gpu", accelerator_type |-> accelerator_type]

\* Tpu.name
Tpu_name(self) ==
  <<"v">> \o TpuVersion[self.version] \o <<"-">> \o IntStr(self.cores)

\* Gpu.name
Gpu_name(self) == self.accelerator_type

Accelerator_name(self) ==
  IF self.kind = "Tpu" THEN Tpu_name(self) ELSE Gpu_name(self)

(***************************************************************************)
(* xlml/apis/test_config.py: test configs.  A config object is a record of *)
(* its attrs fields; "class" names the Python class.                       *)
(***************************************************************************)
TpuVmTest(accelerator, test_name, set_up_cmds, run_model_cmds, num_slices, use_startup_script) ==
  [class |-> "TpuVmTest", accelerator |-> accelerator,
   test_name |-> test_name, set_up_cmds |-> set_up_cmds,
   run_model_cmds |-> run_model_cmds, num_slices |-> num_slices,
   use_startup_script |-> use_startup_script]

GpuVmTest(accelerator, test_name, set_up_cmds, run_model_cmds) ==
  [class |-> "GpuVmTest", accelerator |-> accelerator,
   test_name |-> test_name, set_up_cmds |-> set_up_cmds,
   run_model_cmds |-> run_model_cmds]

\* cluster_name, docker_image and startup_time_out_in_sec take no part in
\* any property of the class and are left out of the record
TpuGkeTest(accelerator, test_name, set_up_cmds, run_model_cmds, num_slices) ==
  [class |-> "TpuGkeTest", accelerator |-> accelerator,
   test_name |-> test_name, set_up_cmds |-> set_up_cmds,
   run_model_cmds |-> run_model_cmds, num_slices |-> num_slices]

\* TpuVmTest.benchmark_id without the slice count
TpuVmTest_benchmark_id_NoSlices(self) ==
  self.test_name \o <<"-">> \o Accelerator_name(self.accelerator)

\* TpuVmTest.benchmark_id
TpuVmTest_benchmark_id(self) ==
  IF self.num_slices = 1
  THEN self.test_name \o <<"-">> \o Accelerator_name(self.accelerator)
  ELSE self.test_name \o <<"-">> \o IntStr(self.num_slices) \o <<"x">>
         \o Accelerator_name(self.accelerator)

\* GpuVmTest.benchmark_id
GpuVmTest_benchmark_id(self) ==
  self.test_name \o <<"-">> \o Accelerator_name(self.accelerator)

\* TpuGkeTest.benchmark_id with the slice count always written
TpuGkeTest_benchmark_id_AlwaysSlices(self) ==
  self.test_name \o <<"-">> \o IntStr(self.num_slices) \o <<"x">>
    \o Accelerator_name(self.accelerator)

\* TpuGkeTest.benchmark_id
TpuGkeTest_benchmark_id(self) ==
  IF self.num_slices = 1
  THEN self.test_name \o <<"-">> \o Accelerator_name(self.accelerator)
  ELSE self.test_name \o <<"-">> \o IntStr(self.num_slices) \o <<"x">>
         \o Accelerator_name(self.accelerator)

\* cfg.benchmark_id, dispatched on the class of cfg
benchmark_id(self) ==
  CASE self.class = "TpuVmTest" -> TpuVmTest_benchmark_id(self)
    [] self.class = "GpuVmTest" -> GpuVmTest_benchmark_id(self)
    [] self.class = "TpuGkeTest" -> TpuGkeTest_benchmark_id(self)

(***************************************************************************)
(* Inputs of the benchmark_id specification.                               *)
(***************************************************************************)
NameAlphabet == {"a", "-", "x", "2"}
Names == StringsUpTo(NameAlphabet, MaxNameLen)
CoresSet == {4 * u : u \in 0 .. MaxCoreUnits}
NumSlicesSet == -1 .. MaxSlices
NoCmds == <<>>

TpuVmIdConfigs ==
  {TpuVmTest(TpuDefault(v, c), n, NoCmds, NoCmds, k, FALSE) :
     v \in TpuVersions, c \in CoresSet, n \in Names, k \in NumSlicesSet}

TpuGkeIdConfigs ==
  {TpuGkeTest(TpuDefault(v, c), n, NoCmds, NoCmds, k) :
     v \in TpuVersions, c \in CoresSet, n \in Names, k \in NumSlicesSet}

GpuVmIdConfigs ==
  {GpuVmTest(Gpu(a), n, NoCmds, NoCmds) : a \in Names, n \in Names}

IdConfigs == TpuVmIdConfigs \cup TpuGkeIdConfigs \cup GpuVmIdConfigs


\* every enumerated config of a class paired with its benchmark_id
IdsOfClass(configs) == {<<c, benchmark_id(c)>> : c \in configs}
TpuVmIds == IdsOfClass(TpuVmIdConfigs)
TpuGkeIds == IdsOfClass(TpuGkeIdConfigs)
GpuVmIds == IdsOfClass(GpuVmIdConfigs)

(***************************************************************************)
(* Specification SpecId: a config is constructed, then its benchmark_id is *)
(* read.                                                                   *)
(***************************************************************************)
InitId ==
  /\ cfg \in IdConfigs
  /\ bid = NotRead
  /\ setup = NotRead
  /\ test = NotRead
  /\ startup = NotRead
  /\ sh = ShIdle
  /\ jsonTest = NoJson
  /\ argv = NotRead
  /\ sweep = SweepIdle
  /\ dag = DagIdle
  /\ md = MdIdle
  /\ imports = ImportsIdle

ReadBenchmarkId ==
  /\ bid = NotRead
  /\ bid' = Val(benchmark_id(cfg))
  /\ UNCHANGED <<cfg, setup, test, startup, notReadVars>>

NextId == ReadBenchmarkId

SpecId == InitId /\ [][NextId]_vars

IsTpuTest == cfg.class \in {"TpuVmTest", "TpuGkeTest"}

\* C1: the benchmark_id of a TpuVmTest or TpuGkeTest is
\* '<test_name>-v<version value>-<cores>' when num_slices is 1 and
\* '<test_name>-<num_slices>xv<version value>-<cores>' otherwise, and the two
\* classes give the same id for the same test_name, accelerator and num_slices.
C1_TpuBenchmarkIdFormat ==
  (IsTpuTest /\ bid # NotRead) =>
    LET acc == cfg.accelerator
        tpuName == <<"v">> \o TpuVersion[acc.version] \o <<"-">>
                     \o IntStr(acc.cores)
        sibling == IF cfg.class = "TpuVmTest"
                   THEN TpuGkeTest(acc, cfg.test_name, cfg.set_up_cmds,
                                   cfg.run_model_cmds, cfg.num_slices)
                   ELSE TpuVmTest(acc, cfg.test_name, cfg.set_up_cmds,
                                  cfg.run_model_cmds, cfg.num_slices, FALSE)
    IN  /\ Tpu_name(acc) = tpuName
        /\ cfg.num_slices = 1 =>
             bid[1] = Join(<<"-">>, <<cfg.test_name, tpuName>>)
        /\ cfg.num_slices # 1 =>
             bid[1] = Join(<<"-">>,
                           <<cfg.test_name,
                             IntStr(cfg.num_slices) \o <<"x">> \o tpuName>>)
        /\ benchmark_id(sibling) = bid[1]

\* a multi-slice id of a multi-digit core count has been read
C1_Witness ==
  /\ IsTpuTest
  /\ bid # NotRead
  /\ cfg.num_slices = 2
  /\ cfg.accelerator.cores = 12
  /\ cfg.accelerator.version = "V5E"
  /\ cfg.test_name = <<"a", "-">>

\* C2: two TpuVmTest (or two TpuGkeTest) configs with non-negative cores and
\* num_slices that differ in test_name, TPU version, cores or num_slices have
\* different benchmark_id strings.
C2_TpuBenchmarkIdUnique ==
  (IsTpuTest /\ bid # NotRead /\ cfg.num_slices >= 0
     /\ cfg.accelerator.cores >= 0) =>
    \A other \in (IF cfg.class = "TpuVmTest" THEN TpuVmIds ELSE TpuGkeIds) :
      (other[2] = bid[1] /\ other[1].num_slices >= 0
         /\ other[1].accelerator.cores >= 0) => other[1] = cfg

\* a single-slice id whose test_name itself ends in "-" and looks like the
\* start of a slice prefix has been read
C2_Witness ==
  /\ IsTpuTest
  /\ bid # NotRead
  /\ cfg.num_slices = 1
  /\ cfg.test_name = <<"x", "-">>
  /\ cfg.accelerator.cores = 8

\* C3: two GpuVmTest configs that differ in test_name or in accelerator_type
\* have different benchmark_id strings.
C3_GpuBenchmarkIdUnique ==
  (cfg.class = "GpuVmTest" /\ bid # NotRead) =>
    \A other \in GpuVmIds : other[2] = bid[1] => other[1] = cfg

(***************************************************************************)
(* xlml/apis/test_config.py: setup_script, test_script, startup_script.    *)
(***************************************************************************)
NL == <<"\n">>
SEMI == <<";">>

\* TpuVmTest.setup_script
TpuVmTest_setup_script(self) == Join(NL, self.set_up_cmds)

\* TpuVmTest.test_script
TpuVmTest_test_script(self) == Join(NL, self.run_model_cmds)

\* the text of final_command before {main_command}
StartupHead ==
  <<"\n", "b", "a", "s", "h", " ", "-", "c", " ", "'">>

\* the text of final_command after {main_command}
StartupTail ==
  <<" ", "2", ">", "&", "1", " ", "|", " ", "t", "e", "e", " ", "/",
    "t", "m", "p", "/", "l", "o", "g", "s", " ", "&", "\n", "p", "i",
    "d", "=", "$", "!", "\n", "e", "c", "h", "o", " ", "$", "p", "i",
    "d", " ", ">", " ", "/", "t", "m", "p", "/", "m", "a", "i", "n",
    "_", "p", "r", "o", "c", "e", "s", "s", "_", "i", "d", ".", "t",
    "x", "t", "\n", "w", "a", "i", "t", " ", "$", "p", "i", "d",
    "\n", "e", "x", "i", "t", "_", "s", "t", "a", "t", "u", "s", "=",
    "$", "?", "\n", "e", "c", "h", "o", " ", "$", "e", "x", "i", "t",
    "_", "s", "t", "a", "t", "u", "s", " ", ">", " ", "/", "t", "m",
    "p", "/", "p", "r", "o", "c", "e", "s", "s", "_", "e", "x", "i",
    "t", "_", "s", "t", "a", "t", "u", "s", ".", "t", "x", "t", "'",
    "\n">>

\* TpuVmTest.startup_script with the run commands before the set-up commands
TpuVmTest_startup_script_RunFirst(self) ==
  IF self.use_startup_script = FALSE
  THEN <<>>
  ELSE LET main_command == Join(NL, self.run_model_cmds \o self.set_up_cmds)
       IN  StartupHead \o main_command \o StartupTail

\* TpuVmTest.startup_script
TpuVmTest_startup_script(self) ==
  IF self.use_startup_script = FALSE
  THEN <<>>
  ELSE LET main_command == Join(NL, self.set_up_cmds \o self.run_model_cmds)
       IN  StartupHead \o main_command \o StartupTail

\* GpuVmTest.setup_script
GpuVmTest_setup_script(self) == Join(NL, self.set_up_cmds)

\* GpuVmTest.test_script
GpuVmTest_test_script(self) == Join(NL, self.run_model_cmds)

\* TpuGkeTest.setup_script joining with newlines
TpuGkeTest_setup_script_Newline(self) == Join(NL, self.set_up_cmds)

\* TpuGkeTest.setup_script
TpuGkeTest_setup_script(self) == Join(SEMI, self.set_up_cmds)

\* TpuGkeTest.test_script
TpuGkeTest_test_script(self) == Join(SEMI, self.run_model_cmds)

(***************************************************************************)
(* xlml/apis/test_config.py: JSonnetTpuVmTest.                             *)
(***************************************************************************)
\* the characters shlex.quote leaves unquoted: [\w@%+=:,./-] in ASCII
SafeChars ==
  {"a", "b", "c", "d", "e", "f", "g", "h", "i", "j", "k", "l", "m", "n",
   "o", "p", "q", "r", "s", "t", "u", "v", "w", "x", "y", "z", "A", "B",
   "C", "D", "E", "F", "G", "H", "I", "J", "K", "L", "M", "N", "O", "P",
   "Q", "R", "S", "T", "U", "V", "W", "X", "Y", "Z", "0", "1", "2", "3",
   "4", "5", "6", "7", "8", "9", "_", "@", "%", "+", "=", ":", ",", ".",
   "/", "-"}

RECURSIVE ReplaceQuotes(_)
\* s.replace("'", "'\"'\"'")
ReplaceQuotes(s) ==
  IF s = <<>> THEN <<>>
  ELSE (IF Head(s) = "'" THEN <<"'", "\"", "'", "\"", "'">> ELSE <<Head(s)>>)
         \o ReplaceQuotes(Tail(s))

\* shlex.quote that leaves a single quote inside the quotes as it is
shlex_quote_NoEscape(s) ==
  IF s = <<>> THEN <<"'", "'">>
  ELSE IF \A i \in 1 .. Len(s) : s[i] \in SafeChars THEN s
  ELSE <<"'">> \o s \o <<"'">>

\* shlex.quote(s)
shlex_quote(s) ==
  IF s = <<>> THEN <<"'", "'">>
  ELSE IF \A i \in 1 .. Len(s) : s[i] \in SafeChars THEN s
  ELSE <<"'">> \o ReplaceQuotes(s) \o <<"'">>

Whitespace == {" ", "\t", "\r", "\n"}
Quotes == {"'", "\""}

RECURSIVE ShlexScan(_, _, _, _, _, _, _)
\* shlex.shlex(s, posix=True) with whitespace_split and no commenters, read
\* token by token: i is the position of the next character, state and
\* escapedstate those of read_token ("a" inside a word, " " between words, a
\* quote or the escape character), token the token being built, quoted
\* whether it had a quoted part, out the tokens returned so far
ShlexScan(s, i, state, escapedstate, token, quoted, out) ==
  LET eof == i > Len(s)
      c == IF eof THEN "" ELSE s[i]
      \* the token read_token returns at the end of the input
      finish == [error |-> FALSE,
                 tokens |-> IF ~quoted /\ token = <<>> THEN out
                            ELSE Append(out, token)]
  IN  CASE state = " " ->
             IF eof THEN finish
             ELSE IF c \in Whitespace
               THEN IF token # <<>> \/ quoted
                    THEN ShlexScan(s, i + 1, " ", " ", <<>>, FALSE,
                                   Append(out, token))
                    ELSE ShlexScan(s, i + 1, " ", escapedstate, token, quoted,
                                   out)
             ELSE IF c = "\\"
               THEN ShlexScan(s, i + 1, c, "a", token, quoted, out)
             ELSE IF c \in Quotes
               THEN ShlexScan(s, i + 1, c, escapedstate, token, quoted, out)
             ELSE ShlexScan(s, i + 1, "a", escapedstate, <<c>>, quoted, out)
        [] state \in Quotes ->
             IF eof THEN [error |-> TRUE, tokens |-> out]
             ELSE IF c = state
               THEN ShlexScan(s, i + 1, "a", escapedstate, token, TRUE, out)
             ELSE IF c = "\\" /\ state = "\""
               THEN ShlexScan(s, i + 1, c, state, token, TRUE, out)
             ELSE ShlexScan(s, i + 1, state, escapedstate, Append(token, c),
                            TRUE, out)
        [] state = "\\" ->
             IF eof THEN [error |-> TRUE, tokens |-> out]
             ELSE LET kept == IF escapedstate \in Quotes /\ c # state
                                   /\ c # escapedstate
                              THEN Append(token, state) ELSE token
                  IN  ShlexScan(s, i + 1, escapedstate, escapedstate,
                                Append(kept, c), quoted, out)
        [] state = "a" ->
             IF eof THEN finish
             ELSE IF c \in Whitespace
               THEN IF token # <<>> \/ quoted
                    THEN ShlexScan(s, i + 1, " ", " ", <<>>, FALSE,
                                   Append(out, token))
                    ELSE ShlexScan(s, i + 1, " ", escapedstate, token, quoted,
                                   out)
             ELSE IF c \in Quotes
               THEN ShlexScan(s, i + 1, c, escapedstate, token, quoted, out)
             ELSE IF c = "\\"
               THEN ShlexScan(s, i + 1, c, "a", token, quoted, out)
             ELSE ShlexScan(s, i + 1, "a", escapedstate, Append(token, c),
                            quoted, out)

\* shlex.split(s): the words a POSIX shell splits s into
shlex_split(s) == ShlexScan(s, 1, " ", " ", <<>>, FALSE, <<>>)

\* no config object has been constructed
NoConfig == [class |-> "None"]

\* the member of TpuVersion with the given value: TpuVersion(value)
TpuVersionOf(value) == CHOOSE m \in TpuVersions : TpuVersion[m] = value

SetXue == <<"s", "e", "t", " ", "-", "x", "u", "e">>
CdHome == <<"\n", "c", "d", " ", "~", "\n">>
Bash == <<"b", "a", "s", "h">>
DashC == <<"-", "c">>

JSonnetTpuVmTest(accelerator, test_name, setup_, exports, test_command, time_out_in_min) ==
  [class |-> "JSonnetTpuVmTest", accelerator |-> accelerator,
   test_name |-> test_name, setup |-> setup_, exports |-> exports,
   test_command |-> test_command, time_out_in_min |-> time_out_in_min,
   num_slices |-> 1, use_startup_script |-> FALSE]

\* JSonnetTpuVmTest._from_json_helper with the time-out rounded up
JSonnetTpuVmTest_from_json_helper_RoundUp(t, setup_, exports, test_command, reserved) ==
  JSonnetTpuVmTest(
    Tpu(TpuVersionOf(t.accelerator.version), t.accelerator.size,
        t.tpuSettings.softwareVersion, "default", "default", reserved),
    t.testName, setup_, exports, test_command, (t.timeout + 59) \div 60)

\* JSonnetTpuVmTest._from_json_helper
JSonnetTpuVmTest_from_json_helper(t, setup_, exports, test_command, reserved) ==
  JSonnetTpuVmTest(
    Tpu(TpuVersionOf(t.accelerator.version), t.accelerator.size,
        t.tpuSettings.softwareVersion, "default", "default", reserved),
    t.testName, setup_, exports, test_command, t.timeout \div 60)

\* JSonnetTpuVmTest.from_jax, after _load_compiled_jsonnet returned t
JSonnetTpuVmTest_from_jax(t, reserved_tpu) ==
  JSonnetTpuVmTest_from_json_helper(
    t, t.setup, <<>>, <<Bash, DashC, t.runTest>>, reserved_tpu)

\* JSonnetTpuVmTest.from_pytorch, after _load_compiled_jsonnet returned t
JSonnetTpuVmTest_from_pytorch(t, reserved_tpu) ==
  JSonnetTpuVmTest_from_json_helper(
    t, t.tpuSettings.tpuVmPytorchSetup \o CdHome
         \o t.tpuSettings.tpuVmExtraSetup,
    t.tpuSettings.tpuVmExports, t.command, reserved_tpu)

\* JSonnetTpuVmTest.setup_script
JSonnetTpuVmTest_setup_script(self) == Join(NL, <<SetXue, self.setup>>)

\* JSonnetTpuVmTest.test_script
JSonnetTpuVmTest_test_script(self) ==
  Join(NL, <<SetXue, self.exports,
             Join(<<" ">>, [i \in 1 .. Len(self.test_command) |->
                              shlex_quote(self.test_command[i])])>>)

(***************************************************************************)
(* xlml/apis/test_config.py: inputs and specification of the scripts of    *)
(* TpuVmTest, GpuVmTest and TpuGkeTest.                                    *)
(***************************************************************************)
RECURSIVE SeqsUpTo(_, _)
\* every sequence over pool of length at most n
SeqsUpTo(pool, n) ==
  IF n = 0 THEN {<<>>}
  ELSE LET shorter == SeqsUpTo(pool, n - 1)
       IN  shorter \cup {q \o <<e>> : q \in shorter, e \in pool}

\* commands: two plain ones, the empty one, one holding both separators
CmdPool == {<<"a">>, <<"b">>, <<>>, <<"a", "\n", ";">>}
CmdLists == SeqsUpTo(CmdPool, MaxCmds)
ScriptName == <<"t">>

ScriptConfigs ==
  {TpuVmTest(TpuDefault("V4", 8), ScriptName, s, r, 1, u) :
     s \in CmdLists, r \in CmdLists, u \in BOOLEAN}
  \cup {GpuVmTest(Gpu(<<"g">>), ScriptName, s, r) :
          s \in CmdLists, r \in CmdLists}
  \cup {TpuGkeTest(TpuDefault("V4", 8), ScriptName, s, r, 1) :
          s \in CmdLists, r \in CmdLists}

\* cfg.setup_script, dispatched on the class of cfg
setup_script(self) ==
  CASE self.class = "TpuVmTest" -> TpuVmTest_setup_script(self)
    [] self.class = "GpuVmTest" -> GpuVmTest_setup_script(self)
    [] self.class = "TpuGkeTest" -> TpuGkeTest_setup_script(self)
    [] self.class = "JSonnetTpuVmTest" -> JSonnetTpuVmTest_setup_script(self)

\* cfg.test_script, dispatched on the class of cfg
test_script(self) ==
  CASE self.class = "TpuVmTest" -> TpuVmTest_test_script(self)
    [] self.class = "GpuVmTest" -> GpuVmTest_test_script(self)
    [] self.class = "TpuGkeTest" -> TpuGkeTest_test_script(self)
    [] self.class = "JSonnetTpuVmTest" -> JSonnetTpuVmTest_test_script(self)

InitScript ==
  /\ cfg \in ScriptConfigs
  /\ bid = NotRead
  /\ setup = NotRead
  /\ test = NotRead
  /\ startup = NotRead
  /\ sh = ShIdle
  /\ jsonTest = NoJson
  /\ argv = NotRead
  /\ sweep = SweepIdle
  /\ dag = DagIdle
  /\ md = MdIdle
  /\ imports = ImportsIdle

ReadSetupScript ==
  /\ cfg # NoConfig
  /\ setup = NotRead
  /\ setup' = Val(setup_script(cfg))
  /\ UNCHANGED <<cfg, bid, test, startup, notReadVars>>

ReadTestScript ==
  /\ cfg # NoConfig
  /\ test = NotRead
  /\ test' = Val(test_script(cfg))
  /\ UNCHANGED <<cfg, bid, setup, startup, notReadVars>>

\* only TpuVmTest has the property among the three classes
ReadStartupScript ==
  /\ cfg.class = "TpuVmTest"
  /\ startup = NotRead
  /\ startup' = Val(TpuVmTest_startup_script(cfg))
  /\ UNCHANGED <<cfg, bid, setup, test, notReadVars>>

NextScript == ReadSetupScript \/ ReadTestScript \/ ReadStartupScript

SpecScript == InitScript /\ [][NextScript]_vars

RECURSIVE TotalLen(_)
\* the characters of parts[1..] with one separator after each part
TotalLen(parts) ==
  IF parts = <<>> THEN 0 ELSE Len(Head(parts)) + 1 + TotalLen(Tail(parts))

\* script is the parts in their order, each part followed by sep except the
\* last, and nothing else
IsPartsInOrder(script, parts, sep) ==
  LET n == Len(parts)
      start(i) == TotalLen(SubSeq(parts, 1, i - 1))
  IN  /\ Len(script) = IF n = 0 THEN 0 ELSE TotalLen(parts) - 1
      /\ \A i \in 1 .. n :
           /\ SubSeq(script, start(i) + 1, start(i) + Len(parts[i])) = parts[i]
           /\ i < n => script[start(i) + Len(parts[i]) + 1] = sep

RECURSIVE SplitOn(_, _)
\* script.split(sep) for a one-character sep
SplitOn(script, sep) ==
  IF \A i \in 1 .. Len(script) : script[i] # sep THEN <<script>>
  ELSE LET k == CHOOSE i \in 1 .. Len(script) :
                  script[i] = sep /\ \A j \in 1 .. i - 1 : script[j] # sep
       IN  <<SubSeq(script, 1, k - 1)>>
             \o SplitOn(SubSeq(script, k + 1, Len(script)), sep)

HasChar(s, c) == \E i \in 1 .. Len(s) : s[i] = c

\* the separator of the class of cfg
SepOf(c) == IF c.class = "TpuGkeTest" THEN ";" ELSE "\n"

\* splitting script at sep gives back parts, when no part holds sep
SplitsBack(script, parts, sep) ==
  (parts # <<>> /\ \A i \in 1 .. Len(parts) : ~HasChar(parts[i], sep)) =>
    SplitOn(script, sep) = parts

\* C4: setup_script is exactly the set_up_cmds and test_script exactly the
\* run_model_cmds, in their order, joined by '\n' for TpuVmTest and GpuVmTest
\* and by ';' for TpuGkeTest; nothing is dropped, duplicated, reordered or
\* taken from the other list.
C4_ScriptsAreTheCommands ==
  /\ setup # NotRead =>
       /\ IsPartsInOrder(setup[1], cfg.set_up_cmds, SepOf(cfg))
       /\ SplitsBack(setup[1], cfg.set_up_cmds, SepOf(cfg))
  /\ test # NotRead =>
       /\ IsPartsInOrder(test[1], cfg.run_model_cmds, SepOf(cfg))
       /\ SplitsBack(test[1], cfg.run_model_cmds, SepOf(cfg))

\* both scripts of a TpuGkeTest with two different set-up commands and a
\* different run command have been read
C4_Witness ==
  /\ cfg.class = "TpuGkeTest"
  /\ cfg.set_up_cmds = <<<<"a">>, <<"b">>>>
  /\ cfg.run_model_cmds = <<<<"b">>, <<"a">>>>
  /\ setup # NotRead
  /\ test # NotRead

\* the lines that follow the commands in the startup script
StartupTrailer ==
  << <<"p", "i", "d", "=", "$", "!">>,
     <<"e", "c", "h", "o", " ", "$", "p", "i", "d", " ", ">", " ", "/", "t",
       "m", "p", "/", "m", "a", "i", "n", "_", "p", "r", "o", "c", "e", "s",
       "s", "_", "i", "d", ".", "t", "x", "t">>,
     <<"w", "a", "i", "t", " ", "$", "p", "i", "d">>,
     <<"e", "x", "i", "t", "_", "s", "t", "a", "t", "u", "s", "=", "$", "?">>,
     <<"e", "c", "h", "o", " ", "$", "e", "x", "i", "t", "_", "s", "t", "a",
       "t", "u", "s", " ", ">", " ", "/", "t", "m", "p", "/", "p", "r", "o",
       "c", "e", "s", "s", "_", "e", "x", "i", "t", "_", "s", "t", "a", "t",
       "u", "s", ".", "t", "x", "t", "'">>,
     <<>> >>

BashC == <<"b", "a", "s", "h", " ", "-", "c", " ", "'">>
TeeToLog ==
  <<" ", "2", ">", "&", "1", " ", "|", " ", "t", "e", "e", " ", "/", "t",
    "m", "p", "/", "l", "o", "g", "s", " ", "&">>

C5_WitnessOff ==
  /\ cfg.class = "TpuVmTest"
  /\ ~cfg.use_startup_script
  /\ cfg.set_up_cmds # <<>>
  /\ startup # NotRead

(***************************************************************************)
(* Execution of the startup script (final_command of                       *)
(* TpuVmTest.startup_script) by bash.  Every command of set_up_cmds and    *)
(* run_model_cmds is a simple command that exits with 0 or 1.              *)
(*   sh.pc        0 = no shell, else the number of the next line           *)
(*   sh.lines     the lines of the argument of bash -c                     *)
(*   sh.status    $?                                                       *)
(*   sh.lastBg    $!, the process id of the last background job            *)
(*   sh.procs     exit status of each background process, by process id    *)
(*   sh.pid, sh.exit_status    the shell variables of the script           *)
(*   sh.pidFile, sh.statusFile /tmp/main_process_id.txt and                *)
(*                             /tmp/process_exit_status.txt                *)
(*   sh.cmdExits  the exit statuses of the commands run, in order          *)
(***************************************************************************)
ExitCodes == {0, 1}
CmdPid == "pid of the command left of the pipe"
TeePid == "pid of tee, the last process of the pipeline"
Unset == -1

ShellCmdPool == {<<"a">>, <<"b">>}
ShellCmdLists == SeqsUpTo(ShellCmdPool, MaxCmds)

ShellConfigs ==
  {TpuVmTest(TpuDefault("V4", 8), ScriptName, s, r, 1, TRUE) :
     s \in ShellCmdLists, r \in ShellCmdLists}

EndsWith(s, suffix) ==
  /\ Len(s) >= Len(suffix)
  /\ SubSeq(s, Len(s) - Len(suffix) + 1, Len(s)) = suffix

\* the argument of bash -c: the text between "bash -c '" and the closing quote
BashArgument(script) ==
  SubSeq(script, 2 + Len(BashC), Len(script) - 2)

InitShell ==
  /\ cfg \in ShellConfigs
  /\ bid = NotRead
  /\ setup = NotRead
  /\ test = NotRead
  /\ startup = NotRead
  /\ sh = ShIdle
  /\ jsonTest = NoJson
  /\ argv = NotRead
  /\ sweep = SweepIdle
  /\ dag = DagIdle
  /\ md = MdIdle
  /\ imports = ImportsIdle

\* bash -c '<argument>' starts
ShStart ==
  /\ startup # NotRead
  /\ sh.pc = 0
  /\ sh' = [pc |-> 1, lines |-> SplitOn(BashArgument(startup[1]), "\n"),
            status |-> 0, lastBg |-> Unset, procs |-> <<>>,
            pid |-> Unset, exit_status |-> Unset,
            pidFile |-> Unset, statusFile |-> Unset, cmdExits |-> <<>>]
  /\ UNCHANGED <<cfgVars, jsonTest, argv, sweep, dag, md, imports>>

\* bash executes the next line of the argument
ShStep ==
  /\ sh.pc >= 1
  /\ sh.pc <= Len(sh.lines)
  /\ LET line == sh.lines[sh.pc]
         next == [sh EXCEPT !.pc = sh.pc + 1]
     IN  CASE EndsWith(line, TeeToLog) ->
                \* "<command> 2>&1 | tee /tmp/logs &": a background pipeline;
                \* $! is the process id of its last process, tee
                \E c \in ExitCodes, t \in ExitCodes :
                  sh' = [next EXCEPT
                           !.procs = (CmdPid :> c) @@ (TeePid :> t),
                           !.lastBg = TeePid,
                           !.status = 0,
                           !.cmdExits = Append(sh.cmdExits, c)]
           [] line = StartupTrailer[1] ->
                \* pid=$!
                sh' = [next EXCEPT !.pid = sh.lastBg, !.status = 0]
           [] line = StartupTrailer[2] ->
                \* echo $pid > /tmp/main_process_id.txt
                sh' = [next EXCEPT !.pidFile = sh.pid, !.status = 0]
           [] line = StartupTrailer[3] ->
                \* wait $pid: the exit status of the process waited for
                sh' = [next EXCEPT !.status = sh.procs[sh.pid]]
           [] line = StartupTrailer[4] ->
                \* exit_status=$?
                sh' = [next EXCEPT !.exit_status = sh.status, !.status = 0]
           [] line = SubSeq(StartupTrailer[5], 1, Len(StartupTrailer[5]) - 1) ->
                \* echo $exit_status > /tmp/process_exit_status.txt
                sh' = [next EXCEPT !.statusFile = sh.exit_status,
                                   !.status = 0]
           [] OTHER ->
                \* a command of set_up_cmds or run_model_cmds, in the
                \* foreground; the script goes on whatever its exit status
                \E c \in ExitCodes :
                  sh' = [next EXCEPT !.status = c,
                                     !.cmdExits = Append(sh.cmdExits, c)]
  /\ UNCHANGED <<cfgVars, jsonTest, argv, sweep, dag, md, imports>>

NextShell == ReadStartupScript \/ ShStart \/ ShStep

SpecShell == InitShell /\ [][NextShell]_vars

ShDone == sh.pc >= 1 /\ sh.pc > Len(sh.lines)

\* C6: the status the startup script writes to /tmp/process_exit_status.txt
\* is the exit status of the set-up and run-model commands: it is non-zero
\* whenever one of them fails.
C6_ExitStatusPassedThrough ==
  ShDone =>
    ((\E i \in 1 .. Len(sh.cmdExits) : sh.cmdExits[i] # 0) =>
       sh.statusFile # 0)

(***************************************************************************)
(* Specification SpecJsonnet: a compiled JSonnet test is on disk, from_jax *)
(* or from_pytorch builds a JSonnetTpuVmTest from it, its scripts are      *)
(* read, and the shell splits the command line of the test script.         *)
(***************************************************************************)
ArgPool ==
  {<<>>, <<"a">>, <<" ">>, <<"'">>, <<"\"">>, <<"\\">>, <<"a", " ", "b">>,
   <<"a", "'", "b">>}
TextPool == {<<>>, <<"e">>, <<"e", "\n", "f">>}

BaseJson ==
  [testName |-> <<"t">>,
   accelerator |-> [version |-> <<"4">>, size |-> 8],
   tpuSettings |-> [softwareVersion |-> "tpu-ubuntu2204-base",
                    tpuVmPytorchSetup |-> <<"p">>,
                    tpuVmExtraSetup |-> <<"q">>,
                    tpuVmExports |-> <<"e">>],
   timeout |-> 0,
   setup |-> <<"s">>,
   runTest |-> <<"r">>,
   command |-> <<<<"c">>>>]

TimeoutJsons == {[BaseJson EXCEPT !.timeout = t] : t \in 0 .. MaxTimeout}

CommandJsons ==
  {[BaseJson EXCEPT !.command = c, !.tpuSettings.tpuVmExports = e,
                    !.setup = e] :
     c \in SeqsUpTo(ArgPool, MaxArgs), e \in TextPool}
  \cup {[BaseJson EXCEPT !.runTest = r] : r \in ArgPool}

InitJsonnet ==
  /\ cfg = NoConfig
  /\ bid = NotRead
  /\ setup = NotRead
  /\ test = NotRead
  /\ startup = NotRead
  /\ sh = ShIdle
  /\ jsonTest \in {<<t>> : t \in TimeoutJsons \cup CommandJsons}
  /\ argv = NotRead
  /\ sweep = SweepIdle
  /\ dag = DagIdle
  /\ md = MdIdle
  /\ imports = ImportsIdle

FromJax ==
  /\ cfg = NoConfig
  /\ \E reserved_tpu \in BOOLEAN :
       cfg' = JSonnetTpuVmTest_from_jax(jsonTest[1], reserved_tpu)
  /\ UNCHANGED <<bid, setup, test, startup, sh, jsonTest, argv, sweep, dag, md, imports>>

FromPytorch ==
  /\ cfg = NoConfig
  /\ \E reserved_tpu \in BOOLEAN :
       cfg' = JSonnetTpuVmTest_from_pytorch(jsonTest[1], reserved_tpu)
  /\ UNCHANGED <<bid, setup, test, startup, sh, jsonTest, argv, sweep, dag, md, imports>>

\* the part of the test script after 'set -xue' and the exports
CommandLine(script, self) ==
  SubSeq(script, Len(SetXue) + Len(self.exports) + 3, Len(script))

\* the shell that runs the test script splits its command line into words
SplitCommandLine ==
  /\ cfg # NoConfig
  /\ test # NotRead
  /\ argv = NotRead
  /\ argv' = Val(shlex_split(CommandLine(test[1], cfg)))
  /\ UNCHANGED <<cfgVars, sh, jsonTest, sweep, dag, md, imports>>

NextJsonnet ==
  \/ FromJax
  \/ FromPytorch
  \/ ReadSetupScript
  \/ ReadTestScript
  \/ SplitCommandLine

SpecJsonnet == InitJsonnet /\ [][NextJsonnet]_vars

\* C7: time_out_in_min of a JSonnetTpuVmTest built by from_jax or
\* from_pytorch is the JSON timeout in seconds divided by 60 and rounded
\* down: time_out_in_min * 60 <= timeout < (time_out_in_min + 1) * 60, and a
\* timeout below 60 seconds gives 0 minutes.
C7_TimeoutInMinutes ==
  cfg # NoConfig =>
    LET m == cfg.time_out_in_min
        t == jsonTest[1].timeout
    IN  /\ m * 60 <= t
        /\ t < (m + 1) * 60
        /\ t < 60 => m = 0

\* a config was built from a timeout that is not a whole number of minutes
C7_Witness ==
  /\ cfg # NoConfig
  /\ jsonTest[1].timeout = 119
  /\ cfg.time_out_in_min = 1

\* C8: setup_script of a JSonnetTpuVmTest is 'set -xue' and the setup text
\* on the next line; test_script is 'set -xue', the exports and the quoted
\* test_command arguments joined by single spaces, joined by newlines; and
\* the shell splits that command line back into the test_command list.
C8_JsonnetScripts ==
  cfg # NoConfig =>
    /\ setup # NotRead =>
         IsPartsInOrder(setup[1], <<SetXue, cfg.setup>>, "\n")
    /\ test # NotRead =>
         /\ SubSeq(test[1], 1, Len(SetXue) + Len(cfg.exports) + 2)
              = SetXue \o <<"\n">> \o cfg.exports \o <<"\n">>
         /\ IsPartsInOrder(CommandLine(test[1], cfg),
                           [i \in 1 .. Len(cfg.test_command) |->
                              shlex_quote(cfg.test_command[i])], " ")
    /\ argv # NotRead =>
         /\ ~argv[1].error
         /\ argv[1].tokens = cfg.test_command

\* the command line of a from_pytorch config whose arguments hold a quote
\* and a space has been split
C8_Witness ==
  /\ cfg # NoConfig
  /\ cfg.test_command = <<<<"a", "'", "b">>, <<"a", " ", "b">>>>
  /\ cfg.exports = <<"e", "\n", "f">>
  /\ setup # NotRead
  /\ argv # NotRead

(***************************************************************************)
(* dags/inference/mor_jetstream_benchmark_serving.py: the sweep.           *)
(***************************************************************************)
LLAMA2_7B ==
  <<"l", "l", "a", "m", "a", "2", "-", "7", "b">>
BASE_MODE == <<"b", "a", "s", "e">>
CHAT_MODE == <<"c", "h", "a", "t">>
W_BF16_KV_BF16 ==
  <<"w", "-", "b", "1", "6", "-", "k", "v", "-", "b", "1", "6">>
W_BF16_KV_INT8 ==
  <<"w", "-", "b", "1", "6", "-", "k", "v", "-", "i", "8">>
W_INT8_KV_INT8 ==
  <<"w", "-", "i", "8", "-", "k", "v", "-", "i", "8">>
Dash == <<"-">>

\* a | b of two dicts: the keys of both, b's value where both have the key
DictUnion(a, b) == b @@ a

\* test_templates[LLAMA2_7B], the keys the sweep loop reads; warmup_mode is
\* ["full"] as written, or ["sampled", "full"] as in the alternative the
\* source keeps in a comment
Template_LLAMA2_7B(warmup_mode) ==
  [run_prefix |-> PyNone,
   tpu_version_cores |-> << <<"V5E", 8>> >>,
   attention |-> <<<<"a", "u", "t", "o", "s", "e", "l", "e", "c", "t", "e", "d">>>>,
   ici_parallelisms |-> << <<1, 1, -1>> >>,
   request_rate |-> <<0>>,
   warmup_mode |-> warmup_mode]

\* test_templates[f"{LLAMA2_7B}-{quant}-axis-order"]
Template_AxisOrder(quant) ==
  CASE quant = W_BF16_KV_BF16 ->
         [axis_order |-> <<<<"2", "1", "0", "3", "-", "2", "0", "1", "3">>,
                           <<"2", "0", "1", "3", "-", "2", "0", "1", "3">>,
                           <<"2", "1", "3", "0", "-", "2", "0", "1", "3">>>>]
    [] quant = W_BF16_KV_INT8 ->
         [axis_order |-> <<<<"2", "0", "3", "1", "-", "2", "0", "3", "1">>,
                           <<"0", "2", "3", "1", "-", "0", "2", "3", "1">>,
                           <<"0", "2", "3", "1", "-", "2", "0", "3", "1">>>>]
    [] quant = W_INT8_KV_INT8 ->
         [axis_order |-> <<<<"0", "2", "3", "1", "-", "2", "1", "3", "0">>,
                           <<"0", "2", "3", "1", "-", "2", "1", "0", "3">>,
                           <<"0", "2", "3", "1", "-", "0", "2", "3", "1">>>>]

\* one entry of tests: its key and its value
TestEntry(mode, quant, per_device_batch_sizes, warmup_mode) ==
  [name |-> Join(Dash, <<LLAMA2_7B, mode, quant>>),
   config |-> DictUnion(DictUnion(Template_LLAMA2_7B(warmup_mode),
                                  Template_AxisOrder(quant)),
                        [model_mode |-> mode, quant_mode |-> quant,
                         per_device_batch_sizes |-> per_device_batch_sizes])]

\* tests, in the order of tests.items()
tests(warmup_mode) ==
  <<TestEntry(BASE_MODE, W_BF16_KV_BF16, <<10>>, warmup_mode),
    TestEntry(BASE_MODE, W_BF16_KV_INT8, <<24>>, warmup_mode),
    TestEntry(BASE_MODE, W_INT8_KV_INT8, <<24>>, warmup_mode),
    TestEntry(CHAT_MODE, W_BF16_KV_BF16, <<10>>, warmup_mode),
    TestEntry(CHAT_MODE, W_BF16_KV_INT8, <<24>>, warmup_mode),
    TestEntry(CHAT_MODE, W_INT8_KV_INT8, <<24>>, warmup_mode)>>

\* run_configs as written in the file
run_configs ==
  {Join(Dash, <<LLAMA2_7B, BASE_MODE, W_BF16_KV_BF16>>),
   Join(Dash, <<LLAMA2_7B, BASE_MODE, W_BF16_KV_INT8>>),
   Join(Dash, <<LLAMA2_7B, CHAT_MODE, W_INT8_KV_INT8>>),
   Join(Dash, <<LLAMA2_7B, CHAT_MODE, W_BF16_KV_BF16>>),
   Join(Dash, <<LLAMA2_7B, CHAT_MODE, W_BF16_KV_INT8>>),
   Join(Dash, <<LLAMA2_7B, BASE_MODE, W_INT8_KV_INT8>>)}

\* skip_configs as written in the file
skip_configs == {}

RECURSIVE NestedLoops(_)
\* the tuples of loop variables that nested for loops over the lists visit,
\* in the order they visit them (the first list is the outermost loop)
NestedLoops(lists) ==
  IF lists = <<>> THEN << <<>> >>
  ELSE LET inner == NestedLoops(Tail(lists))
           outer == Head(lists)
           n == Len(inner)
       IN  [k \in 1 .. Len(outer) * n |->
              <<outer[((k - 1) \div n) + 1]>> \o inner[((k - 1) % n) + 1]]

\* the loop variables of the seven nested loops over one entry of tests
SweepPoints(c) ==
  NestedLoops(<<c.tpu_version_cores, c.axis_order, c.attention,
                c.ici_parallelisms, c.per_device_batch_sizes,
                c.request_rate, c.warmup_mode>>)

\* the sweep loop skips every entry and never calls generate_model_configs
SweepSelected_None(name, run, skip) == FALSE

\* the two conditions that guard "continue" in the sweep loop, negated
SweepSelected(name, run, skip) ==
  /\ ~(run # {} /\ name \notin run)
  /\ ~(skip # {} /\ name \in skip)

\* test_name_prefix of the DAG
test_name_prefix == <<"m", "o", "r", "-", "m", "a", "x", "-", "j", "s">>

\* ",".join(s) of a str s: its characters with commas between them
comma_join(s) == Join(<<",">>, [i \in 1 .. Len(s) |-> <<s[i]>>])

\* generate_model_configs: a copy-and-paste slip takes the autoregressive
\* orders from the prefill order
axis_orders_ArFromPrefill(axis_order) ==
  LET parts == SplitOn(axis_order, "-")
  IN  IF Len(parts) # 2 THEN [raised |-> "ValueError"]
      ELSE [raised |-> "none",
            prefill_key_axis_order |-> comma_join(parts[1]),
            prefill_value_axis_order |-> comma_join(parts[1]),
            ar_key_axis_order |-> comma_join(parts[1]),
            ar_value_axis_order |-> comma_join(parts[1])]

\* generate_model_configs, lines 68-75: "a, b = axis_order.split('-')"
\* raises ValueError unless the split gives two parts; the four orders
axis_orders(axis_order) ==
  LET parts == SplitOn(axis_order, "-")
  IN  IF Len(parts) # 2 THEN [raised |-> "ValueError"]
      ELSE [raised |-> "none",
            prefill_key_axis_order |-> comma_join(parts[1]),
            prefill_value_axis_order |-> comma_join(parts[1]),
            ar_key_axis_order |-> comma_join(parts[2]),
            ar_value_axis_order |-> comma_join(parts[2])]

\* s[:4]
FirstFour(s) == SubSeq(s, 1, IF Len(s) < 4 THEN Len(s) ELSE 4)

\* generate_model_configs names the test with the whole of attention
test_name_WholeAttention(prefix, run_prefix, model_config_name, axis_order, per_device_batch_size, attention) ==
  LET test_run_tag ==
        model_config_name \o <<"-">> \o axis_order \o <<"-", "b", "s">>
          \o IntStr(per_device_batch_size) \o <<"-">> \o attention
      prefixed == IF Truthy(run_prefix)
                  THEN prefix \o <<"-">> \o Str(run_prefix)
                  ELSE prefix
  IN  prefixed \o <<"-">> \o test_run_tag

\* generate_model_configs, lines 102-107: the three f-strings of test_name
test_name(prefix, run_prefix, model_config_name, axis_order, per_device_batch_size, attention) ==
  LET test_run_tag ==
        model_config_name \o <<"-">> \o axis_order \o <<"-", "b", "s">>
          \o IntStr(per_device_batch_size) \o <<"-">>
          \o FirstFour(attention)
      prefixed == IF Truthy(run_prefix)
                  THEN prefix \o <<"-">> \o Str(run_prefix)
                  ELSE prefix
  IN  prefixed \o <<"-">> \o test_run_tag

\* generate_model_configs: the arguments of the call, the exception it
\* raises if any, and the model_configs and test_name it passes to the
\* config builder otherwise.  Line 68 raises ValueError on an axis_order
\* that does not split in two; only tpu_version == TpuVersion.V5E binds
\* project_name, zone, network, subnetwork and runtime_version, so line 117
\* raises UnboundLocalError for every other version.
generate_model_configs(prefix, model_config_name, sweep_model_configs, axis_order, attention, ici_parallelism, per_device_batch_size, request_rate, warmup_mode, tpu_version, tpu_cores) ==
  LET orders == axis_orders(axis_order)
      args == [model_config_name |-> model_config_name,
               tpu_version |-> tpu_version,
               tpu_cores |-> tpu_cores,
               axis_order |-> axis_order,
               attention |-> attention,
               ici_parallelism |-> ici_parallelism,
               per_device_batch_size |-> per_device_batch_size,
               request_rate |-> request_rate,
               warmup_mode |-> warmup_mode]
  IN  IF orders.raised # "none"
      THEN args @@ [raised |-> orders.raised]
      ELSE IF tpu_version # "V5E"
      THEN args @@ [raised |-> "UnboundLocalError"]
      ELSE args @@ [raised |-> "none",
                    model_configs |-> orders,
                    test_name |->
                      test_name(prefix, sweep_model_configs.run_prefix,
                                model_config_name, axis_order,
                                per_device_batch_size, attention)]

(***************************************************************************)
(* Specification SpecSweep: the DAG file is loaded; the loop over          *)
(* tests.items() runs entry by entry and call by call.                     *)
(*   sweep.run, sweep.skip  run_configs and skip_configs                   *)
(*   sweep.warmup           the warmup_mode list of the template           *)
(*   sweep.entry            the index in tests.items() of the entry the    *)
(*                          loop is at (past the end: the loop is over)    *)
(*   sweep.point            the index of the next point of that entry      *)
(*   sweep.calls            the calls of generate_model_configs so far     *)
(*   sweep.failed           a call raised                                  *)
(***************************************************************************)
TestNames == {tests(<<"full">>)[i].name : i \in 1 .. Len(tests(<<"full">>))}
WarmupModes == {<<"full">>, <<"sampled", "full">>}

InitSweep ==
  /\ cfg = NoConfig
  /\ bid = NotRead
  /\ setup = NotRead
  /\ test = NotRead
  /\ startup = NotRead
  /\ sh = ShIdle
  /\ jsonTest = NoJson
  /\ argv = NotRead
  /\ \E run \in SUBSET TestNames,
        skip \in {{}} \cup {{n} : n \in TestNames},
        warmup \in WarmupModes :
       sweep = [run |-> run, skip |-> skip, warmup |-> warmup,
                entry |-> 1, point |-> 1, calls |-> <<>>, failed |-> FALSE]
  /\ dag = DagIdle
  /\ md = MdIdle
  /\ imports = ImportsIdle

SweepRunning ==
  /\ sweep.entry >= 1
  /\ sweep.entry <= Len(tests(sweep.warmup))
  /\ ~sweep.failed

SweepEntry == tests(sweep.warmup)[sweep.entry]

\* "continue": the entry is not in run_configs, or is in skip_configs
SweepSkip ==
  /\ SweepRunning
  /\ ~SweepSelected(SweepEntry.name, sweep.run, sweep.skip)
  /\ sweep' = [sweep EXCEPT !.entry = sweep.entry + 1, !.point = 1]
  /\ UNCHANGED <<cfgVars, sh, jsonTest, argv, dag, md, imports>>

\* the body of the innermost loop: one call of generate_model_configs
SweepCall ==
  /\ SweepRunning
  /\ SweepSelected(SweepEntry.name, sweep.run, sweep.skip)
  /\ sweep.point <= Len(SweepPoints(SweepEntry.config))
  /\ LET pt == SweepPoints(SweepEntry.config)[sweep.point]
         call == generate_model_configs(
                   test_name_prefix, SweepEntry.name, SweepEntry.config,
                   pt[2], pt[3], pt[4], pt[5], pt[6], pt[7], pt[1][1],
                   pt[1][2])
     IN  sweep' = [sweep EXCEPT !.calls = Append(sweep.calls, call),
                                !.point = sweep.point + 1,
                                !.failed = call.raised # "none"]
  /\ UNCHANGED <<cfgVars, sh, jsonTest, argv, dag, md, imports>>

\* the nested loops over the entry are exhausted: on to the next entry
SweepNextEntry ==
  /\ SweepRunning
  /\ SweepSelected(SweepEntry.name, sweep.run, sweep.skip)
  /\ sweep.point > Len(SweepPoints(SweepEntry.config))
  /\ sweep' = [sweep EXCEPT !.entry = sweep.entry + 1, !.point = 1]
  /\ UNCHANGED <<cfgVars, sh, jsonTest, argv, dag, md, imports>>

NextSweep == SweepSkip \/ SweepCall \/ SweepNextEntry

SpecSweep == InitSweep /\ [][NextSweep]_vars

SweepDone == sweep.entry > Len(tests(sweep.warmup)) /\ ~sweep.failed

\* the combinations of one entry, as a set
CrossProduct(c) ==
  {<<vc, ax, at, ici, bs, rr, wm>> :
     vc \in {c.tpu_version_cores[i] : i \in DOMAIN c.tpu_version_cores},
     ax \in {c.axis_order[i] : i \in DOMAIN c.axis_order},
     at \in {c.attention[i] : i \in DOMAIN c.attention},
     ici \in {c.ici_parallelisms[i] : i \in DOMAIN c.ici_parallelisms},
     bs \in {c.per_device_batch_sizes[i] :
               i \in DOMAIN c.per_device_batch_sizes},
     rr \in {c.request_rate[i] : i \in DOMAIN c.request_rate},
     wm \in {c.warmup_mode[i] : i \in DOMAIN c.warmup_mode}}

\* the combination a call was made with
PointOf(call) ==
  <<<<call.tpu_version, call.tpu_cores>>, call.axis_order, call.attention,
    call.ici_parallelism, call.per_device_batch_size, call.request_rate,
    call.warmup_mode>>

\* the entry of tests is selected by run_configs and skip_configs
IsSelected(name) ==
  /\ sweep.run = {} \/ name \in sweep.run
  /\ name \notin sweep.skip

\* C9: the DAG calls generate_model_configs exactly once for each element of
\* the cross product of the seven lists of every selected entry of tests, and
\* for no other combination; with the tables as written that is 18 calls.
C9_SweepIsCrossProduct ==
  sweep.entry >= 1 =>
    LET table == tests(sweep.warmup)
        calls == sweep.calls
    IN  \* no call for an unselected entry or outside the cross product,
        \* and none twice
        /\ \A k \in 1 .. Len(calls) :
             /\ \E i \in 1 .. Len(table) :
                  /\ table[i].name = calls[k].model_config_name
                  /\ IsSelected(table[i].name)
                  /\ PointOf(calls[k]) \in CrossProduct(table[i].config)
             /\ \A j \in 1 .. Len(calls) : calls[j] = calls[k] => j = k
        \* when the loop is over, every combination has its call
        /\ SweepDone =>
             /\ \A i \in 1 .. Len(table) :
                  IsSelected(table[i].name) =>
                    \A pt \in CrossProduct(table[i].config) :
                      \E k \in 1 .. Len(calls) :
                        /\ calls[k].model_config_name = table[i].name
                        /\ PointOf(calls[k]) = pt
             /\ (sweep.run = run_configs /\ sweep.skip = skip_configs
                   /\ sweep.warmup = <<"full">>) => Len(calls) = 18

\* the loop is over with the tables as written
C9_Witness ==
  /\ sweep.entry >= 1
  /\ SweepDone
  /\ sweep.run = run_configs
  /\ sweep.skip = skip_configs
  /\ sweep.warmup = <<"full">>
  /\ Len(sweep.calls) = 18

(***************************************************************************)
(* dags/pytorch_xla/pytorchxla_torchvision.py: the statements of the body  *)
(* of "with models.DAG(...)", in the order Python executes them.  A        *)
(* "create" statement builds a test config with <cls>.from_pytorch and     *)
(* makes a task of it; a "downstream" statement is "a >> b".               *)
(***************************************************************************)
Create(task, cls, file, kwargs) ==
  [op |-> "create", task |-> task, cls |-> cls, file |-> file,
   kwargs |-> kwargs]

Downstream(from, to) == [op |-> "downstream", from |-> from, to |-> to]

resnet_v3_8_tests == {"resnet_v3_8_tests[0]", "resnet_v3_8_tests[1]"}
resnet_v4_8_tests ==
  {"resnet_v4_8_tests[0]", "resnet_v4_8_tests[1]", "resnet_v4_8_tests[2]",
   "resnet_v4_8_tests[3]"}

TorchvisionStatements ==
  <<Create("mnist_v2_8", "JSonnetTpuVmTest",
           "pt-nightly-mnist-pjrt-func-v2-8-1vm", {}),
    Create("resnet_v2_8", "JSonnetTpuVmTest",
           "pt-nightly-resnet50-pjrt-fake-v2-8-1vm", {}),
    Create("resnet_v3_8_tests[0]", "JSonnetTpuVmTest",
           "pt-nightly-resnet50-pjrt-fake-v3-8-1vm", {}),
    Create("resnet_v3_8_tests[1]", "JSonnetTpuVmTest",
           "pt-nightly-resnet50-pjrt-ddp-fake-v3-8-1vm", {}),
    Create("resnet_v4_8_tests[0]", "JSonnetTpuVmTest",
           "pt-nightly-resnet50-pjrt-fake-v4-8-1vm", {}),
    Create("resnet_v4_8_tests[1]", "JSonnetTpuVmTest",
           "pt-nightly-resnet50-pjrt-ddp-fake-v4-8-1vm", {}),
    Create("resnet_v4_8_tests[2]", "JSonnetTpuVmTest",
           "pt-nightly-resnet50-spmd-batch-func-v4-8-1vm", {}),
    Create("resnet_v4_8_tests[3]", "JSonnetTpuVmTest",
           "pt-nightly-resnet50-spmd-spatial-func-v4-8-1vm", {}),
    Create("resnet_v4_32", "JSonnetTpuVmTest",
           "pt-nightly-resnet50-pjrt-fake-v4-32-1vm", {}),
    Create("resnet_v5lp_4", "JSonnetTpuVmTest",
           "pt-nightly-resnet50-pjrt-fake-v5litepod-4-1vm",
           {"network", "subnetwork"}),
    Downstream("mnist_v2_8",
               {"resnet_v2_8", "resnet_v4_32", "resnet_v5lp_4"}
                 \cup resnet_v4_8_tests),
    Downstream("resnet_v2_8", resnet_v3_8_tests),
    Create("resnet_v100_2x2", "JSonnetGpuTest",
           "pt-nightly-resnet50-mp-fake-v100-x2x2", {}),
    Create("resnet_v100_2x2_spmd", "JSonnetGpuTest",
           "pt-nightly-resnet50-spmd-batch-fake-v100-x2x2", {}),
    Downstream("resnet_v100_2x2", {"resnet_v100_2x2_spmd"}),
    Create("resnet_v100_2x1_plugin", "JSonnetGpuTest",
           "pt-nightly-resnet50-mp-plugin-fake-v100-x2x1", {}),
    Create("resnet_v100_2x2_plugin", "JSonnetGpuTest",
           "pt-nightly-resnet50-mp-plugin-fake-v100-x2x2", {}),
    Downstream("resnet_v100_2x1_plugin", {"resnet_v100_2x2_plugin"})>>

\* xlml/apis/test_config.py: the classes the module defines
TestConfigClasses ==
  {"Accelerator", "Tpu", "Gpu", "TestConfig", "TpuVmTest", "GpuVmTest",
   "TpuGkeTest", "JSonnetTpuVmTest"}

\* the keyword parameters of JSonnetTpuVmTest.from_pytorch besides test_name
FromPytorchKeywords == {"reserved_tpu"}

\* what evaluating test_config.<cls>.from_pytorch(file, **kwargs) raises
FromPytorchRaises(cls, kwargs) ==
  IF cls \notin TestConfigClasses THEN "AttributeError"
  ELSE IF ~(kwargs \subseteq FromPytorchKeywords) THEN "TypeError"
  ELSE "none"

\* the timeouts, in seconds, of the compiled JSonnet files of the DAG's tests
DagTimeouts == {59, 3600}

(***************************************************************************)
(* Specification SpecTorchvision: Python executes the DAG file statement   *)
(* by statement; an exception ends the load and the DAG is not registered. *)
(*   dag.pc      the number of the next statement (0: not loading)         *)
(*   dag.tasks   the config of every task created so far, by task name     *)
(*   dag.edges   the pairs <<upstream, downstream>> declared so far        *)
(*   dag.raised  the exception that ended the load, or "none"              *)
(***************************************************************************)
InitTorchvision ==
  /\ cfg = NoConfig
  /\ bid = NotRead
  /\ setup = NotRead
  /\ test = NotRead
  /\ startup = NotRead
  /\ sh = ShIdle
  /\ jsonTest = NoJson
  /\ argv = NotRead
  /\ sweep = SweepIdle
  /\ dag = [pc |-> 1, tasks |-> <<>>, edges |-> {}, raised |-> "none"]
  /\ md = MdIdle
  /\ imports = ImportsIdle

\* Python executes the next statement of the DAG file
DagStep ==
  /\ dag.pc >= 1
  /\ dag.pc <= Len(TorchvisionStatements)
  /\ dag.raised = "none"
  /\ LET st == TorchvisionStatements[dag.pc]
     IN  IF st.op = "create"
         THEN LET exc == FromPytorchRaises(st.cls, st.kwargs)
              IN  IF exc # "none"
                  THEN dag' = [dag EXCEPT !.raised = exc]
                  ELSE \E timeout \in DagTimeouts :
                         LET json == [BaseJson EXCEPT !.testName = st.file,
                                                      !.timeout = timeout]
                             config == JSonnetTpuVmTest_from_pytorch(json,
                                                                     TRUE)
                         IN  dag' = [dag EXCEPT
                                       !.pc = dag.pc + 1,
                                       !.tasks = (st.task :> config) @@ @]
         ELSE dag' = [dag EXCEPT
                        !.pc = dag.pc + 1,
                        !.edges = @ \cup {<<st.from, t>> : t \in st.to}]
  /\ UNCHANGED <<cfgVars, sh, jsonTest, argv, sweep, md, imports>>

NextTorchvision == DagStep

SpecTorchvision == InitTorchvision /\ [][NextTorchvision]_vars

\* the load is over: every statement was executed or one raised
DagLoadEnded ==
  dag.pc >= 1 /\ (dag.raised # "none" \/ dag.pc > Len(TorchvisionStatements))

TpuTasks ==
  {"mnist_v2_8", "resnet_v2_8", "resnet_v4_32", "resnet_v5lp_4"}
    \cup resnet_v3_8_tests \cup resnet_v4_8_tests

RECURSIVE ReachableFrom(_, _)
\* the tasks that are downstream of the tasks of from, directly or not
ReachableFrom(from, edges) ==
  LET more == {e[2] : e \in {d \in edges : d[1] \in from}}
  IN  IF more \subseteq from THEN from
      ELSE ReachableFrom(from \cup more, edges)

\* the tasks downstream of t, directly or not
DownstreamOf(t, edges) ==
  ReachableFrom({e[2] : e \in {d \in edges : d[1] = t}}, edges)

\* C10: in the DAG that the file builds, mnist_v2_8 is upstream of
\* resnet_v2_8, of each resnet_v4_8_tests, of resnet_v4_32 and of
\* resnet_v5lp_4, and resnet_v2_8 is upstream of each resnet_v3_8_tests; so
\* every other TPU task is downstream of mnist_v2_8 (the scheduler starts a
\* task only when its upstream tasks have finished) and no task is downstream
\* of itself.
C10_TpuTasksOrdered ==
  DagLoadEnded =>
    /\ {<<"mnist_v2_8", t>> :
          t \in {"resnet_v2_8", "resnet_v4_32", "resnet_v5lp_4"}
                  \cup resnet_v4_8_tests} \subseteq dag.edges
    /\ {<<"resnet_v2_8", t>> : t \in resnet_v3_8_tests} \subseteq dag.edges
    /\ TpuTasks \ {"mnist_v2_8"} \subseteq DownstreamOf("mnist_v2_8", dag.edges)
    /\ \A t \in TpuTasks : t \notin DownstreamOf(t, dag.edges)

\* dags/vm_resource.py: the network and the subnetwork of the v5e TPUs
V5_NETWORKS == "projects/tpu-prod-env-automated/global/networks/mas-test"
V5E_SUBNETWORKS ==
  "projects/tpu-prod-env-automated/regions/us-east1/subnetworks/mas-test"

GpuTasks ==
  {"resnet_v100_2x2", "resnet_v100_2x2_spmd", "resnet_v100_2x1_plugin",
   "resnet_v100_2x2_plugin"}

\* C11: in the DAG that the file builds, the four GPU tasks exist,
\* resnet_v100_2x2 is upstream of resnet_v100_2x2_spmd and
\* resnet_v100_2x1_plugin is upstream of resnet_v100_2x2_plugin, and no other
\* dependency has a GPU task at either end: the two chains are unordered with
\* respect to each other and to every TPU task.
C11_GpuChains ==
  DagLoadEnded =>
    /\ GpuTasks \subseteq DOMAIN dag.tasks
    /\ {e \in dag.edges : e[1] \in GpuTasks \/ e[2] \in GpuTasks}
         = {<<"resnet_v100_2x2", "resnet_v100_2x2_spmd">>,
            <<"resnet_v100_2x1_plugin", "resnet_v100_2x2_plugin">>}

\* C12: the DAG has the task resnet_v5lp_4, and the Tpu of its test config
\* has network V5_NETWORKS and subnetwork V5E_SUBNETWORKS, not "default".
C12_V5lpNetwork ==
  DagLoadEnded =>
    /\ "resnet_v5lp_4" \in DOMAIN dag.tasks
    /\ dag.tasks["resnet_v5lp_4"].accelerator.network = V5_NETWORKS
    /\ dag.tasks["resnet_v5lp_4"].accelerator.subnetwork = V5E_SUBNETWORKS

(***************************************************************************)
(* dags/inference/configs/maxdiffusion_inference_gce_config.py.            *)
(* A dict is the sequence of its <<key, value>> pairs in insertion order.  *)
(***************************************************************************)
\* metric_config.SshEnvVars.GCS_OUTPUT.value
GCS_OUTPUT ==
  <<"$", "{", "G", "C", "S", "_", "O", "U", "T", "P", "U", "T", "}">>

\* the string literals between the parentheses of "set_up_cmds = (...)", in
\* the order of the source
SetUpLiterals ==
  <<
    <<"p", "i", "p", " ", "i", "n", "s", "t", "a", "l", "l", " ", "-", "-",
      "u", "p", "g", "r", "a", "d", "e", " ", "p", "i", "p">>,
    <<"g", "i", "t", " ", "c", "l", "o", "n", "e", " ", "h", "t", "t", "p",
      "s", ":", "/", "/", "g", "i", "t", "h", "u", "b", ".", "c", "o", "m",
      "/", "g", "o", "o", "g", "l", "e", "/", "m", "a", "x", "d", "i", "f",
      "f", "u", "s", "i", "o", "n", ".", "g", "i", "t">>,
    <<"s", "u", "d", "o", " ", "a", "p", "t", "-", "g", "e", "t", " ", "-",
      "y", " ", "u", "p", "d", "a", "t", "e">>,
    <<"s", "u", "d", "o", " ", "a", "p", "t", "-", "g", "e", "t", " ", "-",
      "y", " ", "i", "n", "s", "t", "a", "l", "l", " ", "p", "y", "t", "h",
      "o", "n", "3", ".", "1", "0", "-", "v", "e", "n", "v">>,
    <<"p", "y", "t", "h", "o", "n", " ", "-", "m", " ", "v", "e", "n", "v",
      " ", ".", "e", "n", "v">>,
    <<"s", "o", "u", "r", "c", "e", " ", ".", "e", "n", "v", "/", "b", "i",
      "n", "/", "a", "c", "t", "i", "v", "a", "t", "e">>,
    <<"c", "d", " ", "m", "a", "x", "d", "i", "f", "f", "u", "s", "i", "o",
      "n">>,
    <<"p", "i", "p", "3", " ", "i", "n", "s", "t", "a", "l", "l", " ", "j",
      "a", "x", "[", "t", "p", "u", "]", " ", "-", "f", " ", "h", "t", "t",
      "p", "s", ":", "/", "/", "s", "t", "o", "r", "a", "g", "e", ".", "g",
      "o", "o", "g", "l", "e", "a", "p", "i", "s", ".", "c", "o", "m", "/",
      "j", "a", "x", "-", "r", "e", "l", "e", "a", "s", "e", "s", "/", "l",
      "i", "b", "t", "p", "u", "_", "r", "e", "l", "e", "a", "s", "e", "s",
      ".", "h", "t", "m", "l">>,
    <<"p", "i", "p", "3", " ", "i", "n", "s", "t", "a", "l", "l", " ", "-",
      "r", " ", "r", "e", "q", "u", "i", "r", "e", "m", "e", "n", "t", "s",
      ".", "t", "x", "t">>,
    <<"p", "i", "p", "3", " ", "i", "n", "s", "t", "a", "l", "l", " ", ".">>,
    <<"a", "p", "t", "-", "g", "e", "t", " ", "i", "n", "s", "t", "a", "l",
      "l", " ", "f", "f", "m", "p", "e", "g", " ", "l", "i", "b", "s", "m",
      "6", " ", "l", "i", "b", "x", "e", "x", "t", "6", " ", " ", "-", "y">>,
    <<"c", "d", " ", ".", ".">>
  >>

\* set_up_cmds: the elements of the tuple.  A comma ends an element; string
\* literals with no comma between them are one element, their concatenation
\* (lines 65-67 and line 77).
set_up_cmds ==
  LET s == SetUpLiterals
  IN  <<s[1], s[2] \o s[3], s[4], s[5], s[6], s[7], s[8], s[9], s[10],
        s[11] \o s[12]>>

\* the values of model_name that the "if" statements test for
SDXL_Base ==
  <<"S", "D", "X", "L", "-", "B", "a", "s", "e", "-", "1", ".", "0">>
SDXL_Lightning ==
  <<"S", "D", "X", "L", "-", "L", "i", "g", "h", "t", "n", "i", "n", "g">>
SDXL_ControlNet ==
  <<"S", "D", "X", "L", "-", "C", "o", "n", "t", "r", "o", "l", "N", "e", "t">>
SupportedModels == {SDXL_Base, SDXL_Lightning, SDXL_ControlNet}

\* the f-string that invokes the generation program of a model
GenerationProgram(model_name, per_device_bat_size, attention) ==
  LET flags ==
        <<"p", "e", "r", "_", "d", "e", "v", "i", "c", "e", "_", "b", "a",
          "t", "c", "h", "_", "s", "i", "z", "e", "=">>
          \o Str(per_device_bat_size)
          \o <<" ", "a", "t", "t", "e", "n", "t", "i", "o", "n", "=", "\"">>
          \o Str(attention)
          \o <<"\"", " ">>
  IN  CASE model_name = PyStr(SDXL_Base) ->
             <<" ", "p", "y", "t", "h", "o", "n", " ", "-", "m", " ", "s",
               "r", "c", ".", "m", "a", "x", "d", "i", "f", "f", "u", "s",
               "i", "o", "n", ".", "g", "e", "n", "e", "r", "a", "t", "e",
               "_", "s", "d", "x", "l", " ", "s", "r", "c", "/", "m", "a",
               "x", "d", "i", "f", "f", "u", "s", "i", "o", "n", "/", "c",
               "o", "n", "f", "i", "g", "s", "/", "b", "a", "s", "e", "_",
               "x", "l", ".", "y", "m", "l", " ", "r", "u", "n", "_", "n",
               "a", "m", "e", "=", "\"", "m", "y", "_", "r", "u", "n", "\"",
               " ">>
               \o flags
        [] model_name = PyStr(SDXL_Lightning) ->
             <<" ", "p", "y", "t", "h", "o", "n", " ", "-", "m", " ", "s",
               "r", "c", ".", "m", "a", "x", "d", "i", "f", "f", "u", "s",
               "i", "o", "n", ".", "g", "e", "n", "e", "r", "a", "t", "e",
               "_", "s", "d", "x", "l", " ", "s", "r", "c", "/", "m", "a",
               "x", "d", "i", "f", "f", "u", "s", "i", "o", "n", "/", "c",
               "o", "n", "f", "i", "g", "s", "/", "b", "a", "s", "e", "_",
               "x", "l", ".", "y", "m", "l", " ", "r", "u", "n", "_", "n",
               "a", "m", "e", "=", "\"", "m", "y", "_", "r", "u", "n", "\"",
               " ", "l", "i", "g", "h", "t", "n", "i", "n", "g", "_", "r",
               "e", "p", "o", "=", "\"", "B", "y", "t", "e", "D", "a", "n",
               "c", "e", "/", "S", "D", "X", "L", "-", "L", "i", "g", "h",
               "t", "n", "i", "n", "g", "\"", " ", "l", "i", "g", "h", "t",
               "n", "i", "n", "g", "_", "c", "k", "p", "t", "=", "\"", "s",
               "d", "x", "l", "_", "l", "i", "g", "h", "t", "n", "i", "n",
               "g", "_", "4", "s", "t", "e", "p", "_", "u", "n", "e", "t",
               ".", "s", "a", "f", "e", "t", "e", "n", "s", "o", "r", "s",
               "\"", " ">>
               \o flags
        [] model_name = PyStr(SDXL_ControlNet) ->
             <<" ", "p", "y", "t", "h", "o", "n", " ", "s", "r", "c", "/",
               "m", "a", "x", "d", "i", "f", "f", "u", "s", "i", "o", "n",
               "/", "c", "o", "n", "t", "r", "o", "l", "n", "e", "t", "/",
               "g", "e", "n", "e", "r", "a", "t", "e", "_", "c", "o", "n",
               "t", "r", "o", "l", "n", "e", "t", "_", "s", "d", "x", "l",
               "_", "r", "e", "p", "l", "i", "c", "a", "t", "e", "d", ".",
               "p", "y", " ">>
               \o flags

\* the string literals between the parentheses of "run_model_cmds = (...)"
\* of a model, in the order of the source
RunLiterals(model_name, per_device_bat_size, attention) ==
  <<
    <<"s", "o", "u", "r", "c", "e", " ", ".", "e", "n", "v", "/", "b", "i",
      "n", "/", "a", "c", "t", "i", "v", "a", "t", "e">>,
    <<"c", "d", " ", "m", "a", "x", "d", "i", "f", "f", "u", "s", "i", "o",
      "n">>,
    <<"c", "d", " ", ".", ".">>,
    GenerationProgram(model_name, per_device_bat_size, attention),
    <<"c", "d", " ", ".", ".">>,
    <<"g", "s", "u", "t", "i", "l", " ", "c", "p", " ", "m", "e", "t", "r",
      "i", "c", "s", ".", "j", "s", "o", "n", " ">>
      \o GCS_OUTPUT
  >>

\* run_model_cmds after the three "if model_name == ..." statements: the
\* elements of the tuple of the model (the literals of lines 87-88, 99-100
\* and 111-112 have no comma between them); the name is not bound when no
\* "if" matched
run_model_cmds(model_name, per_device_bat_size, attention) ==
  IF model_name \notin {PyStr(n) : n \in SupportedModels}
  THEN [bound |-> FALSE]
  ELSE LET r == RunLiterals(model_name, per_device_bat_size, attention)
       IN  [bound |-> TRUE,
            value |-> <<r[1], r[2], r[3] \o r[4], r[5], r[6]>>]

\* d[key] = value
DictSet(d, key, value) ==
  IF \E i \in 1 .. Len(d) : d[i][1] = key
  THEN [i \in 1 .. Len(d) |->
          IF d[i][1] = key THEN <<key, value>> ELSE d[i]]
  ELSE Append(d, <<key, value>>)

\* json.dumps of a dict of strings
json_dumps_dict(d) ==
  <<"{">>
    \o Join(<<",", " ">>,
            [i \in 1 .. Len(d) |->
               <<"\"">> \o d[i][1] \o <<"\"", ":", " ", "\"">> \o d[i][2] \o <<
                                          "\"">>])
    \o <<"}">>

\* json.dumps of a metrics object: one measured value and the dimensions
json_dumps(m) ==
  <<"{", "\"", "m", "e", "t", "r", "i", "c", "s", "\"", ":", " ", "{", "\"",
    "t", "i", "m", "e", "\"", ":", " ">>
    \o IntStr(m.metrics)
    \o <<"}", ",", " ", "\"", "d", "i", "m", "e", "n", "s", "i", "o", "n",
         "s", "\"", ":", " ">>
    \o json_dumps_dict(m.dimensions)
    \o <<"}">>

\* the metrics objects that the files of the model hold
MetricsObjects ==
  {[metrics |-> n, dimensions |-> d] :
     n \in {0, 7}, d \in {<<>>, << <<<<"k">>, <<"1">>>> >>}}

\* json.loads(s): the object that s is the JSON text of; a string that is no
\* JSON text raises JSONDecodeError
json_loads(s) ==
  IF \E m \in MetricsObjects : json_dumps(m) = s
  THEN [ok |-> TRUE, value |-> CHOOSE m \in MetricsObjects : json_dumps(m) = s]
  ELSE [ok |-> FALSE, value |-> "JSONDecodeError"]

RECURSIVE ForKVIn(_, _)
\* "for k, v in model_configs: metrics['dimensions'][k] = str(v)": iterating
\* a dict yields its keys, and "k, v = key" unpacks the characters of the
\* key, raising ValueError unless the key has exactly two
ForKVIn(model_configs, metrics) ==
  IF model_configs = <<>> THEN [raised |-> "none", metrics |-> metrics]
  ELSE LET key == Head(model_configs)[1]
       IN  IF Len(key) # 2 THEN [raised |-> "ValueError", metrics |-> metrics]
           ELSE ForKVIn(Tail(model_configs),
                        [metrics EXCEPT
                           !.dimensions = DictSet(@, <<key[1]>>,
                                                  Str(PyStr(<<key[2]>>)))])

\* _modify_save_metrics(metrics_file, model_configs) on the files fs: the
\* files afterwards and the exception raised, if any
modify_save_metrics(fs, metrics_file, model_configs) ==
  LET loaded == json_loads(metrics_file)
  IN  IF ~loaded.ok THEN [fs |-> fs, raised |-> loaded.value]
      ELSE LET looped == ForKVIn(model_configs, loaded.value)
           IN  IF looped.raised # "none"
               THEN [fs |-> fs, raised |-> looped.raised]
               ELSE [fs |-> (metrics_file :> json_dumps(looped.metrics)) @@ fs,
                     raised |-> "none"]

\* the fields of TpuVmTest and of TestConfig, which are the keyword
\* arguments that the generated TpuVmTest.__init__ accepts
TpuVmTestFields ==
  {"accelerator", "time_out_in_min", "task_owner", "test_name",
   "set_up_cmds", "run_model_cmds", "num_slices", "use_startup_script"}

\* the arguments that get_maxdiffusion_inference_nightly_config passes to
\* test_config.TpuVmTest
MaxdiffusionTestKeywords ==
  {"accelerator", "test_name", "set_up_cmds", "run_model_cmds", "timeout",
   "task_owner", "num_slices", "gcs_subfolder"}

METRICS_JSON ==
  <<"m", "e", "t", "r", "i", "c", "s", ".", "j", "s", "o", "n">>

\* get_maxdiffusion_inference_nightly_config, statement by statement: the
\* call m after its next statement
MaxdiffusionStatement(m) ==
  LET a == m.args
  IN  CASE m.pc = 1 ->   \* job_gcp_config = gcp_config.GCPConfig(...)
             [m EXCEPT !.pc = 2,
                       !.job_gcp_config =
                         [project_name |-> a.project_name,
                          zone |-> a.tpu_zone,
                          dataset_name |-> "BENCHMARK_DATASET"]]
        [] m.pc = 2 ->   \* the three reads of model_configs
             LET mc == a.model_configs
                 bs == <<"p", "e", "r", "_", "d", "e", "v", "i", "c", "e",
                         "_", "b", "a", "t", "c", "h", "_", "s", "i", "z",
                         "e">>
                 at == <<"a", "t", "t", "e", "n", "t", "i", "o", "n">>
                 mn == <<"m", "o", "d", "e", "l", "_", "n", "a", "m", "e">>
             IN  IF ~(DictHas(mc, bs) /\ DictHas(mc, at) /\ DictHas(mc, mn))
                 THEN [m EXCEPT !.raised = "KeyError"]
                 ELSE [m EXCEPT !.pc = 3,
                                !.per_device_bat_size = DictGet(mc, bs),
                                !.attention = DictGet(mc, at),
                                !.model_name = DictGet(mc, mn)]
        [] m.pc = 3 ->   \* set_up_cmds = (...)
             [m EXCEPT !.pc = 4, !.set_up_cmds = set_up_cmds]
        [] m.pc = 4 ->   \* the three "if model_name == ..." statements
             [m EXCEPT !.pc = 5,
                       !.run_model_cmds =
                         run_model_cmds(m.model_name, m.per_device_bat_size,
                                        m.attention)]
        [] m.pc = 5 ->   \* _modify_save_metrics("metrics.json", model_configs)
             LET r == modify_save_metrics(m.fs, METRICS_JSON, a.model_configs)
             IN  IF r.raised # "none" THEN [m EXCEPT !.raised = r.raised]
                 ELSE [m EXCEPT !.pc = 6, !.fs = r.fs]
        [] m.pc = 6 ->   \* job_test_config = test_config.TpuVmTest(...)
             IF ~m.run_model_cmds.bound
             THEN [m EXCEPT !.raised = "UnboundLocalError"]
             ELSE IF ~(MaxdiffusionTestKeywords \subseteq TpuVmTestFields)
             THEN [m EXCEPT !.raised = "TypeError"]
             ELSE [m EXCEPT
                     !.pc = 7,
                     !.job_test_config =
                       TpuVmTest(Tpu(a.tpu_version, a.tpu_cores,
                                     a.runtime_version, a.network,
                                     a.subnetwork, a.is_tpu_reserved),
                                 a.test_name, m.set_up_cmds,
                                 m.run_model_cmds.value,
                                 a.num_slices, FALSE)
                         @@ [time_out_in_min |-> "None"]]
        [] m.pc = 7 ->   \* job_metric_config = ...; return task....
             [m EXCEPT !.pc = 8,
                       !.result =
                         [task_test_config |-> m.job_test_config,
                          task_gcp_config |-> m.job_gcp_config,
                          task_metric_config |->
                            [json_lines |-> METRICS_JSON,
                             use_runtime_generated_gcs_folder |-> TRUE]]]

(***************************************************************************)
(* Specification SpecMaxdiffusion: a call of                               *)
(* get_maxdiffusion_inference_nightly_config (md.fn = "config") executed   *)
(* statement by statement, or a call of _modify_save_metrics               *)
(* (md.fn = "modify"), in a directory with the files md.fs.                *)
(*   md.pc      the next statement (past the last: the call returned)      *)
(*   md.raised  the exception that ended the call, or "none"               *)
(***************************************************************************)
MdModelConfigs ==
  {<< <<<<"p", "e", "r", "_", "d", "e", "v", "i", "c", "e", "_", "b", "a",
          "t", "c", "h", "_", "s", "i", "z", "e">>, bs>>,
      <<<<"a", "t", "t", "e", "n", "t", "i", "o", "n">>, at>>,
      <<<<"m", "o", "d", "e", "l", "_", "n", "a", "m", "e">>, mn>> >> :
     bs \in {PyInt(1), PyInt(2)},
     at \in {PyStr(<<"f", "l", "a", "s", "h">>), PyStr(<<"d", "o", "t", "_",
                                          "p", "r", "o", "d", "u", "c", "t">>)},
     mn \in {PyStr(n) : n \in SupportedModels \cup {<<"S", "D", "X", "L",
                                          "-", "T", "u", "r", "b", "o">>}}}

\* the dicts that _modify_save_metrics is called with on its own
MdDimensions ==
  {<<>>,
   << <<<<"b", "s">>, PyInt(2)>> >>,
   << <<<<"k">>, PyInt(2)>> >>,
   << <<<<"b", "s">>, PyInt(1)>>,
      <<<<"a", "t", "t", "e", "n", "t", "i", "o", "n">>, PyStr(<<"f", "l",
                                          "a", "s", "h">>)>> >>}

\* the file names: "metrics.json", and a name that is itself a JSON text
MdFileNames ==
  {METRICS_JSON, json_dumps([metrics |-> 0, dimensions |-> <<>>])}

\* the directory: empty, or one of the files with a metrics object in it
MdFiles ==
  {<<>>} \cup {name :> json_dumps(m) : name \in MdFileNames,
                                       m \in MetricsObjects}

MdArgs ==
  {[tpu_version |-> v, tpu_cores |-> c, tpu_zone |-> z,
    time_out_in_min |-> t, test_name |-> "maxdiffusion-nightly",
    project_name |-> "cloud-ml-auto-solutions",
    runtime_version |-> "tpu-ubuntu2204-base", network |-> "default",
    subnetwork |-> "default", is_tpu_reserved |-> TRUE, num_slices |-> n,
    model_configs |-> mc] :
     v \in {"V4", "V5E"}, c \in {8}, z \in {"us-central2-b", "us-east1-c"},
     t \in {60}, n \in {1, 2}, mc \in MdModelConfigs}

InitMaxdiffusion ==
  /\ cfg = NoConfig
  /\ bid = NotRead
  /\ setup = NotRead
  /\ test = NotRead
  /\ startup = NotRead
  /\ sh = ShIdle
  /\ jsonTest = NoJson
  /\ argv = NotRead
  /\ sweep = SweepIdle
  /\ dag = DagIdle
  /\ imports = ImportsIdle
  /\ \/ \E a \in MdArgs, fs \in MdFiles :
          md = [fn |-> "config", pc |-> 1, raised |-> "none", fs |-> fs,
                args |-> a, job_gcp_config |-> "unbound",
                per_device_bat_size |-> "unbound", attention |-> "unbound",
                model_name |-> "unbound", set_up_cmds |-> "unbound",
                run_model_cmds |-> [bound |-> FALSE], job_test_config |-> "unbound",
                result |-> "none"]
     \/ \E name \in MdFileNames, mc \in MdDimensions, fs \in MdFiles :
          md = [fn |-> "modify", pc |-> 1, raised |-> "none", fs |-> fs,
                metrics_file |-> name, model_configs |-> mc]

\* the next statement of get_maxdiffusion_inference_nightly_config
MdStep ==
  /\ md.pc >= 1
  /\ md.fn = "config"
  /\ md.pc <= 7
  /\ md.raised = "none"
  /\ md' = MaxdiffusionStatement(md)
  /\ UNCHANGED <<cfgVars, sh, jsonTest, argv, sweep, dag, imports>>

\* _modify_save_metrics called on its own
MdModifySaveMetrics ==
  /\ md.pc = 1
  /\ md.fn = "modify"
  /\ md.raised = "none"
  /\ LET r == modify_save_metrics(md.fs, md.metrics_file, md.model_configs)
     IN  md' = [md EXCEPT !.pc = IF r.raised = "none" THEN 2 ELSE 1,
                          !.fs = r.fs, !.raised = r.raised]
  /\ UNCHANGED <<cfgVars, sh, jsonTest, argv, sweep, dag, imports>>

NextMaxdiffusion == MdStep \/ MdModifySaveMetrics

SpecMaxdiffusion == InitMaxdiffusion /\ [][NextMaxdiffusion]_vars

\* C13: the set-up commands are twelve commands, one per string of the
\* source in its order (upgrade pip, git clone, apt-get update, install
\* python3.10-venv, create the venv, activate it, cd maxdiffusion, install
\* jax[tpu], install requirements.txt, install the package, install the
\* controlnet dependencies, cd ..), and the lines of the setup script of a
\* TpuVmTest with these commands are these twelve commands.
C13_SetUpCommands ==
  (md.pc >= 4 /\ md.fn = "config") =>
    /\ md.set_up_cmds = SetUpLiterals
    /\ SplitOn(TpuVmTest_setup_script(
                 TpuVmTest(TpuDefault("V4", 8), md.args.test_name,
                           md.set_up_cmds, <<>>, 1, FALSE)), "\n")
         = SetUpLiterals

\* C14: for a supported model_name the run commands are, in order: activate
\* the virtual environment, cd maxdiffusion, the generation program of the
\* model with per_device_batch_size and attention of model_configs, cd ..,
\* and the copy of metrics.json to the GCS output location.
C14_RunCommands ==
  (md.pc >= 5 /\ md.fn = "config"
     /\ md.model_name \in {PyStr(n) : n \in SupportedModels}) =>
    /\ md.run_model_cmds.bound
    /\ LET r == RunLiterals(md.model_name, md.per_device_bat_size,
                            md.attention)
       IN  md.run_model_cmds.value = <<r[1], r[2], r[4], r[5], r[6]>>

RECURSIVE SetDimensions(_, _)
\* dimensions after dimensions[k] = str(v) for every key k with value v of
\* model_configs
SetDimensions(model_configs, dimensions) ==
  IF model_configs = <<>> THEN dimensions
  ELSE SetDimensions(Tail(model_configs),
                     DictSet(dimensions, Head(model_configs)[1],
                             Str(Head(model_configs)[2])))

\* C15: a call of _modify_save_metrics(metrics_file, model_configs), on its
\* own or from get_maxdiffusion_inference_nightly_config (which passes
\* "metrics.json" and its model_configs), made when the file metrics_file
\* holds a metrics object, raises nothing and leaves in that file the same
\* object with dimensions[k] = str(v) for every k, v of model_configs, all
\* other files as they were.
C15_ModifySaveMetrics ==
  [][LET file == IF md.fn = "modify" THEN md.metrics_file ELSE METRICS_JSON
         mc == IF md.fn = "modify" THEN md.model_configs
               ELSE md.args.model_configs
         before == json_loads(md.fs[file]).value
     IN  (/\ md.pc >= 1
          /\ md.raised = "none"
          /\ (md.fn = "modify" /\ md.pc = 1) \/ (md.fn = "config" /\ md.pc = 5)
          /\ file \in DOMAIN md.fs
          /\ json_loads(md.fs[file]).ok)
           => /\ md'.raised = "none"
              /\ md'.fs =
                   (file :> json_dumps([before EXCEPT
                                          !.dimensions =
                                            SetDimensions(mc, @)])) @@ md.fs
    ]_vars

\* C16: a call of get_maxdiffusion_inference_nightly_config with a supported
\* model_name returns a task whose test config has a Tpu with the given
\* version, cores, runtime_version, reserved flag, network and subnetwork,
\* the given test_name and num_slices and a time-out of time_out_in_min
\* minutes, and whose GCP config has the given project and zone and the
\* benchmark dataset.
C16_NightlyConfig ==
  (/\ md.pc >= 1
   /\ md.fn = "config"
   /\ md.raised # "none" \/ md.pc = 8
   /\ DictGet(md.args.model_configs,
              <<"m", "o", "d", "e", "l", "_", "n", "a", "m", "e">>)
        \in {PyStr(n) : n \in SupportedModels}) =>
    LET a == md.args
        t == md.result.task_test_config
    IN  /\ md.raised = "none"
        /\ t.accelerator = Tpu(a.tpu_version, a.tpu_cores, a.runtime_version,
                               a.network, a.subnetwork, a.is_tpu_reserved)
        /\ t.test_name = a.test_name
        /\ t.num_slices = a.num_slices
        /\ t.time_out_in_min = a.time_out_in_min
        /\ md.result.task_gcp_config =
             [project_name |-> a.project_name, zone |-> a.tpu_zone,
              dataset_name |-> "BENCHMARK_DATASET"]

(***************************************************************************)
(* Specification SpecGenerate: one call of generate_model_configs of       *)
(* dags/inference/mor_jetstream_benchmark_serving.py.                      *)
(*   sweep.args  the arguments of the call                                 *)
(*   sweep.pc    1: called, 2: the call is over                            *)
(*   sweep.call  what the call raised or passed to the config builder      *)
(***************************************************************************)
MaxAxisLen == 3

\* the axis orders of the three templates, and every short string of digits
\* and dashes
GenAxisOrders ==
  StringsUpTo({"0", "1", "-"}, MaxAxisLen)
    \cup UNION {{Template_AxisOrder(q).axis_order[i] : i \in 1 .. 3} :
                  q \in {W_BF16_KV_BF16, W_BF16_KV_INT8, W_INT8_KV_INT8}}

GenArgs ==
  [test_name_prefix : {test_name_prefix, <<"p">>},
   run_prefix : {PyNone, PyStr(<<>>), PyStr(<<"r">>)},
   model_config_name : {tests(<<"full">>)[1].name, tests(<<"full">>)[6].name},
   axis_order : GenAxisOrders,
   attention : {<<"a", "u", "t", "o", "s", "e", "l", "e", "c", "t", "e", "d">>, <<
                                          "d", "o", "t">>},
   per_device_batch_size : {10, 24},
   tpu_version : {"V5E", "V4"}]

InitGenerate ==
  /\ cfg = NoConfig
  /\ bid = NotRead
  /\ setup = NotRead
  /\ test = NotRead
  /\ startup = NotRead
  /\ sh = ShIdle
  /\ jsonTest = NoJson
  /\ argv = NotRead
  /\ \E a \in GenArgs : sweep = [fn |-> "generate", pc |-> 1, args |-> a]
  /\ dag = DagIdle
  /\ md = MdIdle
  /\ imports = ImportsIdle

\* the call runs to its return or to the exception it raises
GenerateCall ==
  /\ "fn" \in DOMAIN sweep
  /\ sweep.pc = 1
  /\ LET a == sweep.args
     IN  sweep' =
           [fn |-> "generate", pc |-> 2, args |-> a,
            call |-> generate_model_configs(
                       a.test_name_prefix, a.model_config_name,
                       [run_prefix |-> a.run_prefix], a.axis_order,
                       a.attention, <<1, 1, -1>>, a.per_device_batch_size, 0,
                       "full", a.tpu_version, 8)]
  /\ UNCHANGED <<cfgVars, sh, jsonTest, argv, dag, md, imports>>

NextGenerate == GenerateCall

SpecGenerate == InitGenerate /\ [][NextGenerate]_vars

\* the call of generate_model_configs is over and raised nothing
GenerateReturned ==
  /\ "fn" \in DOMAIN sweep
  /\ sweep.pc = 2
  /\ sweep.call.raised = "none"

\* C17: the test name is the '-'-joined sequence of test_name_prefix, then
\* run_prefix if it is neither None nor '', then model_config_name,
\* axis_order, 'bs' with the batch size, and the first four characters of
\* attention; with prefix 'mor-max-js', run_prefix None and attention
\* 'autoselected' it is 'mor-max-js-<name>-<axis_order>-bs<batch>-auto'.
C17_TestNameFormat ==
  GenerateReturned =>
    LET a == sweep.args
        n == Len(a.attention)
        four == [i \in 1 .. (IF n < 4 THEN n ELSE 4) |-> a.attention[i]]
        hasRun == a.run_prefix # PyNone /\ a.run_prefix # PyStr(<<>>)
        tail == <<a.model_config_name, a.axis_order,
                  <<"b", "s">> \o IntStr(a.per_device_batch_size), four>>
    IN  /\ sweep.call.test_name =
             Join(<<"-">>,
                  <<a.test_name_prefix>>
                    \o (IF hasRun THEN <<a.run_prefix[2]>> ELSE <<>>)
                    \o tail)
        /\ (/\ a.test_name_prefix = test_name_prefix
            /\ a.run_prefix = PyNone
            /\ a.attention = <<"a", "u", "t", "o", "s", "e", "l", "e", "c",
                               "t", "e", "d">>)
             => sweep.call.test_name =
                  <<"m", "o", "r", "-", "m", "a", "x", "-", "j", "s", "-">> \o a.model_config_name \o <<
                                          "-">>
                    \o a.axis_order \o <<"-", "b", "s">>
                    \o IntStr(a.per_device_batch_size) \o <<"-", "a", "u",
                                          "t", "o">>

\* a call with a run_prefix and an attention longer than four characters
C17_Witness ==
  /\ GenerateReturned
  /\ sweep.args.run_prefix = PyStr(<<"r">>)
  /\ sweep.args.attention = <<"a", "u", "t", "o", "s", "e", "l", "e", "c",
                              "t", "e", "d">>
  /\ sweep.args.axis_order = <<"2", "1", "0", "3", "-", "2", "0", "1", "3">>

CountChar(s, c) == Cardinality({i \in 1 .. Len(s) : s[i] = c})

\* s without its commas
RemoveCommas(s) == SelectSeq(s, LAMBDA c : c # ",")

\* p is s with a comma between every two characters
IsCommaSeparated(p, s) ==
  /\ Len(p) = IF s = <<>> THEN 0 ELSE 2 * Len(s) - 1
  /\ \A i \in 1 .. Len(s) : p[2 * i - 1] = s[i]
  /\ \A i \in 1 .. Len(s) - 1 : p[2 * i] = ","

\* C19: an axis_order without exactly one '-' makes the call raise; with
\* exactly one, P before it and A after it, the call does not fail on the
\* split and the config it builds has P comma-separated as
\* prefill_key_axis_order and prefill_value_axis_order, A comma-separated as
\* ar_key_axis_order and ar_value_axis_order, and removing the commas and
\* joining the two with '-' gives axis_order back.
C19_AxisOrderSplit ==
  ("fn" \in DOMAIN sweep /\ sweep.pc = 2) =>
    LET ax == sweep.args.axis_order
        c == sweep.call
        k == CHOOSE i \in 1 .. Len(ax) : ax[i] = "-"
        P == [i \in 1 .. k - 1 |-> ax[i]]
        A == [i \in 1 .. Len(ax) - k |-> ax[k + i]]
    IN  IF CountChar(ax, "-") # 1 THEN c.raised # "none"
        ELSE /\ c.raised # "ValueError"
             /\ c.raised = "none" =>
                  LET m == c.model_configs
                  IN  /\ IsCommaSeparated(m.prefill_key_axis_order, P)
                      /\ IsCommaSeparated(m.ar_key_axis_order, A)
                      /\ m.prefill_value_axis_order = m.prefill_key_axis_order
                      /\ m.ar_value_axis_order = m.ar_key_axis_order
                      /\ RemoveCommas(m.prefill_key_axis_order) \o <<"-">>
                           \o RemoveCommas(m.ar_key_axis_order) = ax

\* the call with axis_order '2103-2013' gave '2,1,0,3' and '2,0,1,3'
C19_Witness ==
  /\ GenerateReturned
  /\ sweep.args.axis_order = <<"2", "1", "0", "3", "-", "2", "0", "1", "3">>
  /\ sweep.call.model_configs.prefill_value_axis_order = <<"2", ",", "1",
                                          ",", "0", ",", "3">>
  /\ sweep.call.model_configs.ar_value_axis_order = <<"2", ",", "0", ",",
                                          "1", ",", "3">>

(***************************************************************************)
(* dags/vm_resource.py: the names the module defines at its top level,     *)
(* each with the members it has (none for the string constants).           *)
(***************************************************************************)
vm_resource ==
  [V5_NETWORKS_PREFIX |-> {}, V5_NETWORKS |-> {}, V5E_SUBNETWORKS |-> {},
   V5P_SUBNETWORKS |-> {}, V6E_SUBNETWORKS |-> {},
   BM_NETWORKS_PREFIX_BENCHMARKING |-> {}, BM_NETWORKS |-> {},
   V4_BM_SUBNETWORKS |-> {}, V5E_BM_SUBNETWORKS |-> {},
   V5P_BM_SUBNETWORKS |-> {}, INFERENCE_NETWORK_PREFIX |-> {},
   INFERENCE_NETWORKS |-> {}, H100_INFERENCE_SUBNETWORKS |-> {},
   Project |->
     {"CLOUD_ML_AUTO_SOLUTIONS", "CLOUD_ML_BENCHMARKING",
      "TPU_PROD_ENV_MULTIPOD", "TPU_PROD_ENV_AUTOMATED",
      "CLOUD_TPU_MULTIPOD_DEV", "SUPERCOMPUTER_TESTING",
      "CLOUD_TPU_INFERENCE_TEST", "TPU_PROD_ENV_LARGE_ADHOC"},
   ImageProject |-> {"DEEP_LEARNING_PLATFORM_RELEASE"},
   ImageFamily |-> {"COMMON_CU121_DEBIAN_11"},
   Region |-> {"US_CENTRAL1"},
   Zone |->
     {"US_CENTRAL1_A", "US_CENTRAL1_B", "US_CENTRAL2_B", "US_CENTRAL1_C",
      "US_CENTRAL1_F", "US_EAST1_C", "US_EAST1_D", "US_EAST4_A",
      "US_EAST5_A", "US_WEST4_B", "US_WEST1_C", "AUSTRALIA_SOUTHEAST1_C"},
   MachineVersion |->
     {"N1_STANDARD_8", "N1_STANDARD_16", "N1_STANDARD_32", "A2_HIGHGPU_1G",
      "A2_HIGHGPU_4G", "A3_HIGHGPU_8G", "G2_STAND_4", "G2_STAND_16",
      "G2_STAND_32"},
   TpuVersion |-> {"V2", "V3", "V4", "V5E", "V5P", "TRILLIUM"},
   GpuVersion |->
     {"L4", "A100", "H100", "XPK_H100", "XPK_H100_MEGA", "V100"},
   CpuVersion |-> {"M1_MEGAMEM", "N2_STANDARD"},
   RuntimeVersion |->
     {"TPU_VM_TF_NIGHTLY", "TPU_VM_TF_NIGHTLY_POD", "TPU_VM_TF_STABLE_SE",
      "TPU_VM_TF_STABLE_POD_SE", "TPU_VM_TF_STABLE_PJRT",
      "TPU_VM_TF_STABLE_POD_PJRT", "TPU_VM_TF_V5P_ALPHA",
      "TPU_UBUNTU2204_BASE", "TPU_VM_V4_BASE", "V2_ALPHA_TPUV5_LITE",
      "V2_ALPHA_TPUV5"},
   XpkClusters |->
     {"TPU_V4_8_MAS_CLUSTER", "TPU_V4_8_MAXTEXT_CLUSTER",
      "TPU_V4_16_CLUSTER", "TPU_V4_128_CLUSTER", "TPU_V5P_8_CLUSTER",
      "TPU_V5E_256_CLUSTER", "TPU_V6E_256_CLUSTER", "GPU_A3_CLUSTER",
      "GPU_A3PLUS_CLUSTER", "CPU_M1_MEGAMEM_96_CLUSTER",
      "CPU_N2_STANDARD_64_CLUSTER"},
   DockerImage |->
     {"XPK_JAX_TEST", "PYTORCH_NIGHTLY", "MAXTEXT_TPU_JAX_STABLE",
      "MAXDIFFUSION_TPU_STABLE", "MAXDIFFUSION_TPU_JAX_NIGHTLY",
      "MAXTEXT_TPU_JAX_NIGHTLY", "MAXTEXT_GPU_JAX_PINNED",
      "MAXTEXT_GPU_JAX_STABLE", "MAXTEXT_GPU_JAX_NIGHTLY",
      "CLOUD_HYBRIDSIM_NIGHTLY"}]

\* "from dags.vm_resource import <name>"
From(name) == [ref |-> "from", name |-> name]

\* "<name>.<member>" for a name imported from dags.vm_resource
Member(name, member) == [ref |-> "member", name |-> name, member |-> member]

\* "test_config.<cls>.from_pytorch(file, **kwargs)"
FromPytorchCall(cls, kwargs) ==
  [ref |-> "from_pytorch", cls |-> cls, kwargs |-> kwargs]

\* the exception that evaluating the reference raises, or "none"
Resolve(r) ==
  CASE r.ref = "from" ->
         IF r.name \in DOMAIN vm_resource THEN "none" ELSE "ImportError"
    [] r.ref = "member" ->
         IF r.member \in vm_resource[r.name] THEN "none"
         ELSE "AttributeError"
    [] r.ref = "from_pytorch" -> FromPytorchRaises(r.cls, r.kwargs)

\* dags/examples/xpk_example_dag.py (gke_example_dag)
XpkExampleReferences ==
  <<From("TpuVersion"), From("Project"), From("Zone"), From("ClusterName"),
    From("DockerImage"),
    Member("DockerImage", "XPK_JAX_TEST"), Member("TpuVersion", "V4"),
    Member("Zone", "US_CENTRAL2_B"),
    Member("Project", "CLOUD_ML_AUTO_SOLUTIONS"),
    Member("ClusterName", "V4_8_CLUSTER"),
    Member("DockerImage", "XPK_JAX_TEST"), Member("TpuVersion", "V4"),
    Member("Zone", "US_CENTRAL2_B"),
    Member("Project", "TPU_PROD_ENV_MULTIPOD"),
    Member("ClusterName", "V4_128_MULTISLICE_CLUSTER")>>

\* dags/pytorch_xla/pytorchxla_torchvision.py: the import, the GCP configs,
\* then one from_pytorch per task the body of the DAG creates
TorchvisionReferences ==
  LET creates == SelectSeq(TorchvisionStatements,
                           LAMBDA s : s.op = "create")
  IN  <<From("Project"), From("Zone"), From("V5_NETWORKS"),
        From("V5E_SUBNETWORKS"),
        Member("Project", "CLOUD_ML_AUTO_SOLUTIONS"),
        Member("Zone", "US_CENTRAL1_C"),
        Member("Project", "CLOUD_ML_AUTO_SOLUTIONS"),
        Member("Zone", "US_CENTRAL2_B"),
        Member("Project", "CLOUD_ML_AUTO_SOLUTIONS"),
        Member("Project", "TPU_PROD_ENV_AUTOMATED"),
        Member("Zone", "US_EAST1_C")>>
        \o [i \in 1 .. Len(creates) |->
              FromPytorchCall(creates[i].cls, creates[i].kwargs)]

\* dags/inference/mor_jetstream_benchmark_serving.py: the import, the
\* template table, then the first call of generate_model_configs
MorJetstreamReferences ==
  <<From("TpuVersion"), From("Zone"), From("Project"), From("V5_NETWORKS"),
    From("V5E_SUBNETWORKS"), From("V5P_SUBNETWORKS"), From("RuntimeVersion"),
    Member("TpuVersion", "V5E"), Member("TpuVersion", "V5E"),
    Member("Project", "TPU_PROD_ENV_AUTOMATED"), Member("Zone", "US_EAST1_C"),
    Member("RuntimeVersion", "V2_ALPHA_TPUV5_LITE")>>

DagFiles == {"xpk_example_dag", "pytorchxla_torchvision", "mor_jetstream"}

References(f) ==
  CASE f = "xpk_example_dag" -> XpkExampleReferences
    [] f = "pytorchxla_torchvision" -> TorchvisionReferences
    [] f = "mor_jetstream" -> MorJetstreamReferences

(***************************************************************************)
(* Specification SpecImports: the DAG files are loaded independently of    *)
(* one another, each reference by reference; an exception ends the load of *)
(* its file.                                                               *)
(*   imports.pc[f]      the number of the next reference of file f         *)
(*   imports.raised[f]  the exception that ended the load of f, or "none"  *)
(***************************************************************************)
InitImports ==
  /\ cfg = NoConfig
  /\ bid = NotRead
  /\ setup = NotRead
  /\ test = NotRead
  /\ startup = NotRead
  /\ sh = ShIdle
  /\ jsonTest = NoJson
  /\ argv = NotRead
  /\ sweep = SweepIdle
  /\ dag = DagIdle
  /\ md = MdIdle
  /\ imports = [pc |-> [f \in DagFiles |-> 1],
                raised |-> [f \in DagFiles |-> "none"]]

LoadRunning(f) ==
  /\ imports.raised[f] = "none"
  /\ imports.pc[f] <= Len(References(f))

\* the next reference of a file resolves
LoadResolve ==
  \E f \in DagFiles :
    /\ LoadRunning(f)
    /\ Resolve(References(f)[imports.pc[f]]) = "none"
    /\ imports' = [imports EXCEPT !.pc[f] = imports.pc[f] + 1]
    /\ UNCHANGED <<cfgVars, sh, jsonTest, argv, sweep, dag, md>>

\* the next reference of a file raises: the load of the file is over
LoadRaise ==
  \E f \in DagFiles :
    /\ LoadRunning(f)
    /\ Resolve(References(f)[imports.pc[f]]) # "none"
    /\ imports' = [imports EXCEPT
                     !.raised[f] = Resolve(References(f)[imports.pc[f]])]
    /\ UNCHANGED <<cfgVars, sh, jsonTest, argv, sweep, dag, md>>

NextImports == LoadResolve \/ LoadRaise

SpecImports == InitImports /\ [][NextImports]_vars

\* C20: no DAG file's load ends on a name that dags.vm_resource or
\* xlml.apis.test_config does not define: no "from dags.vm_resource import"
\* raises ImportError and no member or class looked up there raises
\* AttributeError.
C20_NoUndefinedName ==
  \A f \in DagFiles : imports.raised[f] \notin {"ImportError", "AttributeError"}

====
